---------------------------- MODULE Spec2Model ----------------------------
(***************************************************************************)
(* A model of the front-end infrastructure of my-lang: SourceManager,      *)
(* FileManager, StringInterner, DiagnosticManager and the lexer's keyword  *)
(* lookup.  Every subsystem has its own specification over the shared      *)
(* variables; the variables of the other subsystems stay at their initial  *)
(* values.                                                                 *)
(***************************************************************************)
EXTENDS Integers, Sequences, FiniteSets, TLC

VARIABLES
  \* FileManager
  fileCache,          \* canonical name -> cached FileEntry, or NoEntry
  fileCacheCount,     \* stats.fileCacheCount
  maxCacheSize,       \* SIZE_MAX = no limit
  nextEntryId,        \* identity of the next FileEntry object made by loadFile
  fmHist,             \* history: first entry inserted per key, keys erased
  \* SourceManager
  loadedFiles,        \* std::vector<FileInfo>
  filenameToFileID,   \* interned filename -> FileID (0 = absent)
  nextLocationID,     \* std::atomic<uint32_t>
  g_location_cache,   \* thread_local LocationCache of the querying thread
  smCall,             \* the last SourceManager call and what it returned
  \* Threads calling getFile / createFileID
  thr,                \* per thread: position in its call, arguments, result
  \* Lexer (identifiers and keywords)
  lexed,              \* the lexemes scanned so far and the tokens made of them
  lexStats,           \* stats.identifierCount, stats.keywordCount
  \* StringInterner
  Storage,            \* the data addresses of the StringStorage objects owned
  LookupMap,          \* entries: key (a view of stored bytes) -> value (pointer)
  heap,               \* address -> the bytes stored there, or Free
  bucket_count,       \* Storage.bucket_count()
  internerStats,      \* StringInternerStats
  Mutex,              \* the thread holding the exclusive lock, or "none"
  issued,             \* history: (bytes, handle) pairs intern returned since clear()
  ith,                \* per thread: position in its interner call, result
  \* DiagnosticManager
  diagStats,          \* stats (DiagnosticStats)
  suppressWarnings,
  suppressNotes,
  warningsAsErrors,
  maxErrors,          \* 0 = unlimited
  consumers,          \* std::vector of the registered consumers, in order
  nextConsumer,       \* how many consumer objects were registered so far
  delivered,          \* history: the handleDiagnostic calls made, in order
  reported,           \* history: the number of report calls made
  fatalReported,      \* history: a Fatal diagnostic was reported since reset()
  dmCall,             \* what shouldContinue returned, if it was the last call
  \* Lexer
  lxSource,           \* source: the bytes of the file the lexer was built over
  lxOptions,          \* options (LexerOptions)
  lxCurrent,          \* current, as an offset from source.data()
  lxLineStart,        \* lineStart, as an offset from source.data()
  lxCurrentLine,      \* currentLine
  hasPeekedToken,
  peekedToken,        \* *peekedToken, or NoToken when the pointer is null
  lxDiags,            \* history: the reports the lexer made on diagMgr, in order
  lxReturned,         \* history: the tokens nextToken returned, in order
  lxCall,             \* the last call on the lexer: what it returned, whether it scanned
  \* SourceManager: the line index of one file
  lnInfo,             \* FileInfo: data, lineOffsets, lineOffsetsComputed
  lnBuild,            \* bytes per pass of the scanning loop the build selected
  lineComputationCount, \* stats.lineComputationCount
  lnSinceClear,       \* history: computations begun since the last clearCache()
  lnThr,              \* per thread: position in its line/column query
  lnCall,             \* the last query completed and what it returned
  \* ArenaAllocator
  Chunks,             \* std::vector<ArenaChunk>: base address, size, used
  chunkSize,
  arenaStats,         \* stats (ArenaStats)
  arCall,             \* the last call on the arena, its result, the state before it
  arAllocs,           \* history: the number of allocate calls made
  arRanges,           \* history: the ranges returned since the last clear() or reset()
  \* FileManager used from one thread
  gfCall,             \* the last getFileWithError call, its result, the cache before it
  gfFailed,           \* history: per canonical name, the loads that failed
  \* TokenManager
  tmTokens,           \* tokens (std::vector<Token>)
  tmCall,             \* the last call on the token table and what it returned
  \* SourceManager::getSourceText / getSourceLength
  stCall,             \* the last getSourceText or getSourceLength call and what it returned
  \* Two SourceManagers on one thread
  mmMgr,              \* each manager's loadedFiles, filenameToFileID and nextLocationID
  mmCall,             \* the last call on a manager and what it returned
  cacheOwner,         \* the manager whose call last wrote g_location_cache, or none
  \* TokenInfo
  tiCall              \* the last TokenInfo call and what it returned

fmVars == <<fileCache, fileCacheCount, maxCacheSize, nextEntryId, fmHist>>

smVars == <<loadedFiles, filenameToFileID, nextLocationID, g_location_cache, smCall>>

kwVars == <<lexed, lexStats>>

(* What the FileManager, SourceManager and their threads leave alone *)
siVars == <<Storage, LookupMap, heap, bucket_count, internerStats, Mutex, issued, ith>>

dmVars == <<diagStats, suppressWarnings, suppressNotes, warningsAsErrors, maxErrors,
            consumers, nextConsumer, delivered, reported, fatalReported, dmCall>>

lxVars == <<lxSource, lxOptions, lxCurrent, lxLineStart, lxCurrentLine,
            hasPeekedToken, peekedToken, lxDiags, lxReturned, lxCall>>

lnVars == <<lnInfo, lnBuild, lineComputationCount, lnSinceClear, lnThr, lnCall>>

arVars == <<Chunks, chunkSize, arenaStats, arCall, arAllocs, arRanges>>

gfVars == <<gfCall, gfFailed>>

tmVars == <<tmTokens, tmCall>>

stVars == <<stCall>>

mmVars == <<mmMgr, mmCall, cacheOwner>>

tiVars == <<tiCall>>

langVars == <<kwVars, siVars, dmVars, lxVars, lnVars, arVars, gfVars, tmVars, stVars, mmVars, tiVars>>

(* What the keyword lookup leaves alone *)
notKW == <<fmVars, smVars, thr, siVars, dmVars, lxVars, lnVars, arVars, gfVars, tmVars, stVars, mmVars, tiVars>>

(* What the StringInterner leaves alone *)
notSI == <<fmVars, smVars, thr, kwVars, dmVars, lxVars, lnVars, arVars, gfVars, tmVars, stVars, mmVars, tiVars>>

(* What the DiagnosticManager leaves alone *)
notDM == <<fmVars, smVars, thr, kwVars, siVars, lxVars, lnVars, arVars, gfVars, tmVars, stVars, mmVars, tiVars>>

(* What the Lexer leaves alone *)
notLX == <<fmVars, smVars, thr, kwVars, siVars, dmVars, lnVars, arVars, gfVars, tmVars, stVars, mmVars, tiVars>>

(* What the line index of a file leaves alone *)
notLN == <<fmVars, smVars, thr, kwVars, siVars, dmVars, lxVars, arVars, gfVars, tmVars, stVars, mmVars, tiVars>>

(* What the FileManager used from one thread leaves alone *)
notGF == <<smVars, thr, kwVars, siVars, dmVars, lxVars, lnVars, arVars, tmVars, stVars, mmVars, tiVars>>

(* What the TokenManager leaves alone *)
notTM == <<fmVars, smVars, thr, kwVars, siVars, dmVars, lxVars, lnVars, arVars, gfVars, stVars, mmVars, tiVars>>

(* What SourceManager::getSourceText and getSourceLength leave alone *)
notST == <<fmVars, filenameToFileID, nextLocationID, smCall, thr, kwVars, siVars, dmVars, lxVars, lnVars, arVars, gfVars, tmVars, mmVars, tiVars>>

(* What calls on one of two SourceManagers leave alone, the FileManager    *)
(* and the location cache apart                                            *)
notMM == <<loadedFiles, filenameToFileID, nextLocationID, smCall, thr, kwVars, siVars, dmVars, lxVars, lnVars, arVars, gfVars, tmVars, stVars, tiVars>>

(* What the TokenInfo leaves alone *)
notTI == <<fmVars, smVars, thr, kwVars, siVars, dmVars, lxVars, lnVars, arVars, gfVars, tmVars, stVars, mmVars>>

(* What the ArenaAllocator leaves alone *)
notAR == <<fmVars, smVars, thr, kwVars, siVars, dmVars, lxVars, lnVars, gfVars, tmVars, stVars, mmVars, tiVars>>

vars == <<fmVars, smVars, thr, langVars>>

---------------------------------------------------------------------------
(* Bytes *)
NUL == 0
LF == 10
CR == 13

(* The files on disk: canonical name -> bytes *)
DiskNames == {"a.ml", "b.ml"}

\* 120 is the letter x
Disk == ("a.ml" :> <<120, LF, 120>>) @@ ("b.ml" :> <<120, CR, LF, 120>>)

(* The paths callers pass; "./a.ml" is a second spelling of "a.ml" and     *)
(* "nofile" does not exist.                                                *)
Paths == {"a.ml", "./a.ml", "b.ml", "nofile"}

(* FileManager::normalizeFilename: the canonical path, or the path itself  *)
(* when canonicalization fails.                                            *)
normalizeFilename(p) == IF p = "./a.ml" THEN "a.ml" ELSE p

(* The interned names the cache can be keyed by *)
CacheKeys == {normalizeFilename(p) : p \in Paths}

NoEntry == [filename |-> "", data |-> <<>>, id |-> 0]

(* FileManager::loadFile: a new FileEntry object (identity id) holding the *)
(* bytes on disk, or NoEntry (with an error code) when the file does not   *)
(* exist.                                                                  *)
loadFile(name, id) ==
  IF name \in DiskNames THEN [filename |-> name, data |-> Disk[name], id |-> id]
  ELSE NoEntry

getSize(entry) == Len(entry.data)

(* The byte at index k of the entry's buffer, which holds size + 1 bytes,  *)
(* the last one NUL.                                                       *)
BufferAt(entry, k) == IF k < Len(entry.data) THEN entry.data[k + 1] ELSE NUL

---------------------------------------------------------------------------
(* SourceManager *)

NullPtr == [buf |-> "", off |-> 0]

InvalidCache ==
  [last_location |-> 0, last_line |-> 0, last_column |-> 0,
   last_line_start |-> NullPtr, last_file_id |-> 0]

FileInfo(entry, offset) ==
  [entry |-> entry, offset |-> offset, lineOffsets |-> <<>>,
   lineOffsetsComputed |-> FALSE]

(* std::upper_bound over the file table by start offset: the halving loop  *)
(* of the standard library; returns a 0-based index in first..first+len.   *)
RECURSIVE UpperBoundFiles(_, _, _, _)
UpperBoundFiles(files, first, len, locID) ==
  IF len = 0 THEN first
  ELSE LET half == len \div 2
           mid == first + half
       IN IF ~(locID < files[mid + 1].offset)
            THEN UpperBoundFiles(files, mid + 1, len - half - 1, locID)
            ELSE UpperBoundFiles(files, first, half, locID)

(* std::upper_bound over lineOffsets *)
RECURSIVE UpperBoundOffsets(_, _, _, _)
UpperBoundOffsets(offs, first, len, offset) ==
  IF len = 0 THEN first
  ELSE LET half == len \div 2
           mid == first + half
       IN IF ~(offset < offs[mid + 1])
            THEN UpperBoundOffsets(offs, mid + 1, len - half - 1, offset)
            ELSE UpperBoundOffsets(offs, first, half, offset)

(* SourceManager::getNextLocationID: the value before fetch_add, and the   *)
(* counter after it.                                                       *)
getNextLocationID(counter) == [res |-> counter, next |-> counter + 1]

(* SourceManager::getLocForFileOffset *)
getLocForFileOffset(files, fid, offset) ==
  IF fid = 0 \/ fid > Len(files) THEN 0
  ELSE IF offset > getSize(files[fid].entry) THEN 0
  ELSE files[fid].offset + offset

getFileID_NoRangeCheck(st, loc) ==
  IF loc = 0 THEN [st |-> st, res |-> 0]
  ELSE
    LET it == UpperBoundFiles(st.files, 0, Len(st.files), loc)
    IN IF it = 0 THEN [st |-> st, res |-> 0]
       ELSE [st |-> [st EXCEPT !.cache.last_location = loc,
                               !.cache.last_file_id = it],
             res |-> it]

(* SourceManager::getFileID.  st = [files, cache]; returns the state after *)
(* the call and the result.                                                *)
getFileID(st, loc) ==
  IF loc = 0 THEN [st |-> st, res |-> 0]
  ELSE
    LET c == st.cache
        hit ==
          /\ c.last_location # 0
          /\ c.last_file_id # 0
          /\ LET cached_info == st.files[c.last_file_id]
                 file_start == cached_info.offset
                 file_end == file_start + getSize(cached_info.entry)
             IN loc >= file_start /\ loc <= file_end
    IN IF hit THEN [st |-> st, res |-> c.last_file_id]
       ELSE
         LET it == UpperBoundFiles(st.files, 0, Len(st.files), loc)
         IN IF it = 0 THEN [st |-> st, res |-> 0]
            ELSE
              LET info == st.files[it]     \* --it, as a 1-based index
                  fileStart == info.offset
                  fileEnd == fileStart + getSize(info.entry)
              IN IF loc < fileStart \/ loc > fileEnd THEN [st |-> st, res |-> 0]
                 ELSE [st |-> [st EXCEPT !.cache.last_location = loc,
                                         !.cache.last_file_id = it],
                       res |-> it]

(* SourceManager::getFileOffset *)
getFileOffset(st, loc) ==
  LET f == getFileID(st, loc)
  IN IF f.res = 0 THEN [st |-> f.st, res |-> 0]
     ELSE [st |-> f.st, res |-> loc - f.st.files[f.res].offset]

(* The scalar loop of computeLineOffsets: the offsets following each LF.   *)
RECURSIVE ScanNewlines(_, _, _)
ScanNewlines(data, i, acc) ==
  IF i >= Len(data) THEN acc
  ELSE ScanNewlines(data, i + 1,
                    IF data[i + 1] = LF THEN Append(acc, i + 1) ELSE acc)

(* SourceManager::computeLineOffsets *)
computeLineOffsets(st, fid) ==
  IF fid = 0 \/ fid > Len(st.files) THEN st
  ELSE IF st.files[fid].lineOffsetsComputed THEN st
  ELSE [st EXCEPT !.files[fid].lineOffsets =
                     ScanNewlines(st.files[fid].entry.data, 0, <<0>>),
                  !.files[fid].lineOffsetsComputed = TRUE]

findLineNumber_FirstAbove(lineOffsets, offset) ==
  IF Len(lineOffsets) = 0 THEN 0
  ELSE UpperBoundOffsets(lineOffsets, 0, Len(lineOffsets), offset) + 1

(* SourceManager::findLineNumber *)
findLineNumber(lineOffsets, offset) ==
  IF Len(lineOffsets) = 0 THEN 0
  ELSE LET it == UpperBoundOffsets(lineOffsets, 0, Len(lineOffsets), offset)
       IN IF it = 0 THEN 1 ELSE it

(* The scan of getLineNumber's fast path: from the cached line start up to *)
(* current_pos, stopping at LF or CR; returns the final scan index.        *)
RECURSIVE ScanLine(_, _, _)
ScanLine(entry, scan, current_pos) ==
  IF scan <= current_pos /\ BufferAt(entry, scan) # LF /\ BufferAt(entry, scan) # CR
    THEN ScanLine(entry, scan + 1, current_pos)
    ELSE scan

(* The authoritative tail of getLineNumber (from "FileID fid = getFileID") *)
getLineNumberSlow(st, loc) ==
  LET f == getFileID(st, loc)
  IN IF f.res = 0 THEN [st |-> f.st, res |-> 0]
     ELSE
       LET fid == f.res
           o == getFileOffset(computeLineOffsets(f.st, fid), loc)
           info == o.st.files[fid]
           line == findLineNumber(info.lineOffsets, o.res)
           c1 == [o.st.cache EXCEPT !.last_location = loc,
                                    !.last_file_id = fid,
                                    !.last_line = line]
           c2 == IF Len(info.lineOffsets) # 0 /\ line > 0 /\ line <= Len(info.lineOffsets)
                   THEN [c1 EXCEPT !.last_line_start =
                           [buf |-> info.entry.filename,
                            off |-> IF line = 1 THEN 0
                                    ELSE info.lineOffsets[line - 1] + 1]]
                   ELSE c1
       IN [st |-> [o.st EXCEPT !.cache = c2], res |-> line]

(* SourceManager::getLineNumber.  unspec is the outcome of the fast path's *)
(* scan when the cached line-start pointer points into the buffer of       *)
(* another file than the one compared against (pointers into different     *)
(* arrays: the comparison is unspecified).                                 *)
getLineNumber(st, loc, unspec) ==
  IF loc = 0 THEN [st |-> st, res |-> 0]
  ELSE
    LET c == st.cache
        fast == c.last_location # 0 /\ c.last_file_id # 0 /\ c.last_line > 0
    IN IF fast /\ loc = c.last_location THEN [st |-> st, res |-> c.last_line]
       ELSE IF ~fast THEN getLineNumberSlow(st, loc)
       ELSE
         LET f == getFileID(st, loc)
             fid == f.res
             ptr == f.st.cache.last_line_start
         IN IF fid = f.st.cache.last_file_id /\ ptr # NullPtr
              THEN
                LET o == getFileOffset(f.st, loc)
                    info == o.st.files[fid]
                    sameLine ==
                      IF ptr.buf = info.entry.filename
                        THEN ScanLine(info.entry, ptr.off, o.res) > o.res
                        ELSE unspec
                IN IF sameLine THEN [st |-> o.st, res |-> o.st.cache.last_line]
                   ELSE getLineNumberSlow(o.st, loc)
              ELSE getLineNumberSlow(f.st, loc)

(* SourceManager::getColumnNumber *)
getColumnNumber(st, loc) ==
  IF loc = 0 THEN [st |-> st, res |-> 0]
  ELSE
    LET c == st.cache
    IN IF /\ c.last_location # 0 /\ c.last_file_id # 0 /\ c.last_column > 0
          /\ loc = c.last_location
         THEN [st |-> st, res |-> c.last_column]
       ELSE
         LET f == getFileID(st, loc)
         IN IF f.res = 0 THEN [st |-> f.st, res |-> 0]
            ELSE
              LET fid == f.res
                  o == getFileOffset(computeLineOffsets(f.st, fid), loc)
                  info == o.st.files[fid]
                  line == findLineNumber(info.lineOffsets, o.res)
              IN IF line = 0 \/ line > Len(info.lineOffsets)
                   THEN [st |-> o.st, res |-> 0]
                   ELSE
                     LET column == o.res - info.lineOffsets[line] + 1
                     IN [st |-> [o.st EXCEPT !.cache.last_location = loc,
                                             !.cache.last_file_id = fid,
                                             !.cache.last_column = column],
                         res |-> column]

(* SourceManager::getLineAndColumn *)
getLineAndColumn(st, loc) ==
  LET f == getFileID(st, loc)
  IN IF f.res = 0 THEN [st |-> f.st, line |-> 0, column |-> 0]
     ELSE
       LET fid == f.res
           o == getFileOffset(computeLineOffsets(f.st, fid), loc)
           info == o.st.files[fid]
           line == findLineNumber(info.lineOffsets, o.res)
       IN IF line = 0 \/ line > Len(info.lineOffsets)
            THEN [st |-> o.st, line |-> 0, column |-> 0]
            ELSE [st |-> o.st, line |-> line,
                  column |-> o.res - info.lineOffsets[line] + 1]

(* createFileIDImpl without the re-check of filenameToFileID under the     *)
(* lock: every call appends a file-table entry.                            *)
createFileIDImpl_NoRecheck(sm, entry) ==
  LET n == getNextLocationID(sm.counter)
      files == Append(sm.files, FileInfo(entry, n.res))
  IN [sm |-> [files |-> files,
              map |-> [sm.map EXCEPT ![entry.filename] = Len(files)],
              counter |-> n.next],
      res |-> Len(files)]

(* SourceManager::createFileIDImpl, under stateMutex.  sm = [files, map,   *)
(* counter]; returns the state after the call and the FileID.              *)
createFileIDImpl(sm, entry) ==
  LET filename == entry.filename
  IN IF sm.map[filename] # 0 THEN [sm |-> sm, res |-> sm.map[filename]]
     ELSE
       LET n == getNextLocationID(sm.counter)
           files == Append(sm.files, FileInfo(entry, n.res))
           fid == Len(files)
       IN [sm |-> [files |-> files,
                   map |-> [sm.map EXCEPT ![filename] = fid],
                   counter |-> n.next],
           res |-> fid]

---------------------------------------------------------------------------
(* FileManager *)

(* "No limit": SIZE_MAX, modelled by the largest 32-bit signed integer.    *)
SIZE_MAX == 2147483647

CachedKeys(cache) == {k \in DOMAIN cache : cache[k] # NoEntry}

(* The orders in which iterating the unordered_map can visit its entries   *)
IterationOrders(cache) ==
  LET S == CachedKeys(cache)
  IN {s \in [1..Cardinality(S) -> S] : \A i, j \in DOMAIN s : i # j => s[i] # s[j]}

RECURSIVE SumSizes(_, _)
SumSizes(cache, keys) ==
  IF keys = {} THEN 0
  ELSE LET k == CHOOSE x \in keys : TRUE
       IN getSize(cache[k]) + SumSizes(cache, keys \ {k})

(* FileManager::getCurrentCacheSize, and the sum evictIfNeeded computes    *)
getCurrentCacheSize(cache) == SumSizes(cache, CachedKeys(cache))

RECURSIVE EvictLoop_CountKept(_, _, _, _)
EvictLoop_CountKept(fm, currentSize, order, i) ==
  IF i <= Len(order) /\ currentSize > fm.max
    THEN EvictLoop_CountKept([fm EXCEPT !.cache[order[i]] = NoEntry],
                             currentSize - getSize(fm.cache[order[i]]), order, i + 1)
    ELSE fm

(* The eviction loop: erase entries in iteration order while over limit    *)
RECURSIVE EvictLoop(_, _, _, _)
EvictLoop(fm, currentSize, order, i) ==
  IF i <= Len(order) /\ currentSize > fm.max
    THEN EvictLoop([fm EXCEPT !.cache[order[i]] = NoEntry, !.count = fm.count - 1],
                   currentSize - getSize(fm.cache[order[i]]), order, i + 1)
    ELSE fm

(* FileManager::evictIfNeeded.  fm = [cache, count, max] *)
evictIfNeeded(fm, order) ==
  IF fm.max = SIZE_MAX THEN fm
  ELSE IF getCurrentCacheSize(fm.cache) <= fm.max THEN fm
  ELSE EvictLoop(fm, getCurrentCacheSize(fm.cache), order, 1)

(* The second critical section without the re-check: the loaded entry is   *)
(* stored over whatever another thread published meanwhile.                *)
publishEntry_NoRecheck(fm, name, entry) ==
  LET ins == [fm EXCEPT !.cache[name] = entry, !.count = fm.count + 1]
  IN {[fm |-> evictIfNeeded(ins, order), res |-> entry] :
        order \in IterationOrders(ins.cache)}

(* getFileWithError, second critical section: re-check, insert, evict.     *)
(* Returns the FileManager state after it and the entry handed back.       *)
publishEntry(fm, name, entry) ==
  IF fm.cache[name] # NoEntry
    THEN {[fm |-> fm, res |-> fm.cache[name]]}
    ELSE LET ins == [fm EXCEPT !.cache[name] = entry, !.count = fm.count + 1]
         IN {[fm |-> evictIfNeeded(ins, order), res |-> entry] :
               order \in IterationOrders(ins.cache)}

(* FileManager::getFileWithError run by one thread without interleaving:   *)
(* the outcomes [fm, res, loaded]; res = NoEntry stands for the error.     *)
getFileWithError(fm, filename, id) ==
  LET name == normalizeFilename(filename)
  IN IF fm.cache[name] # NoEntry
       THEN {[fm |-> fm, res |-> fm.cache[name], loaded |-> FALSE]}
       ELSE LET entry == loadFile(name, id)
            IN IF entry = NoEntry
                 THEN {[fm |-> fm, res |-> NoEntry, loaded |-> FALSE]}
                 ELSE {[fm |-> p.fm, res |-> p.res, loaded |-> TRUE] :
                         p \in publishEntry(fm, name, entry)}

---------------------------------------------------------------------------
(* SourceManager used from one thread *)

MaxLoc == 7
MaxLoads == 3

Locs == 0..MaxLoc

FM == [cache |-> fileCache, count |-> fileCacheCount, max |-> maxCacheSize]

SM == [files |-> loadedFiles, map |-> filenameToFileID, counter |-> nextLocationID]

ST == [files |-> loadedFiles, cache |-> g_location_cache]

Call(op, path, loc, res, res2) ==
  [op |-> op, path |-> path, loc |-> loc, res |-> res, res2 |-> res2]

FMInit ==
  /\ fileCache = [k \in CacheKeys |-> NoEntry]
  /\ fileCacheCount = 0
  /\ maxCacheSize = SIZE_MAX
  /\ nextEntryId = 1
  /\ fmHist = [first |-> [k \in CacheKeys |-> NoEntry], evicted |-> {}, removed |-> {}]

(* The history after a critical section that took the cache from before to *)
(* after: the first entry ever inserted under each key, and the keys whose *)
(* entry the size limit evicted.                                           *)
HistAfterPublish(before, after, name, res) ==
  LET inserted == before[name] = NoEntry
  IN [fmHist EXCEPT
        !.first = IF inserted /\ fmHist.first[name] = NoEntry
                    THEN [fmHist.first EXCEPT ![name] = res] ELSE fmHist.first,
        !.evicted = fmHist.evicted \cup
                      {k \in CacheKeys :
                         after[k] = NoEntry /\ (before[k] # NoEntry \/ (k = name /\ inserted))}]

SMInit ==
  /\ loadedFiles = <<>>
  /\ filenameToFileID = [k \in CacheKeys |-> 0]
  /\ nextLocationID = 1
  /\ g_location_cache = InvalidCache
  /\ smCall = Call("none", "", 0, 0, 0)

(* SourceManager::createFileIDWithError *)
CreateFileID(path) ==
  /\ normalizeFilename(path) \in DiskNames => nextEntryId <= MaxLoads
  /\ \E g \in getFileWithError(FM, path, nextEntryId) :
       /\ fileCache' = g.fm.cache
       /\ fileCacheCount' = g.fm.count
       /\ nextEntryId' = IF g.loaded THEN nextEntryId + 1 ELSE nextEntryId
       /\ fmHist' = IF g.loaded
                      THEN HistAfterPublish(fileCache, g.fm.cache,
                                            normalizeFilename(path), g.res)
                      ELSE fmHist
       /\ UNCHANGED maxCacheSize
       /\ IF g.res = NoEntry
            THEN /\ smCall' = Call("createFileID", path, 0, 0, 0)
                 /\ UNCHANGED <<loadedFiles, filenameToFileID, nextLocationID>>
            ELSE LET r == createFileIDImpl(SM, g.res)
                 IN /\ loadedFiles' = r.sm.files
                    /\ filenameToFileID' = r.sm.map
                    /\ nextLocationID' = r.sm.counter
                    /\ smCall' = Call("createFileID", path, 0, r.res, 0)
       /\ UNCHANGED <<g_location_cache, thr, langVars>>

SetST(st) ==
  /\ loadedFiles' = st.files
  /\ g_location_cache' = st.cache
  /\ UNCHANGED <<filenameToFileID, nextLocationID, fmVars, thr, langVars>>

GetFileID(loc) ==
  LET r == getFileID(ST, loc)
  IN SetST(r.st) /\ smCall' = Call("getFileID", "", loc, r.res, 0)

GetFileOffset(loc) ==
  LET r == getFileOffset(ST, loc)
  IN SetST(r.st) /\ smCall' = Call("getFileOffset", "", loc, r.res, 0)

GetLineNumber(loc) ==
  \E unspec \in BOOLEAN :
    LET r == getLineNumber(ST, loc, unspec)
    IN SetST(r.st) /\ smCall' = Call("getLineNumber", "", loc, r.res, 0)

GetColumnNumber(loc) ==
  LET r == getColumnNumber(ST, loc)
  IN SetST(r.st) /\ smCall' = Call("getColumnNumber", "", loc, r.res, 0)

GetLineAndColumn(loc) ==
  LET r == getLineAndColumn(ST, loc)
  IN SetST(r.st) /\ smCall' = Call("getLineAndColumn", "", loc, r.line, r.column)

(* SourceManager::clearCache *)
ClearCache ==
  /\ loadedFiles' = [i \in DOMAIN loadedFiles |->
                       [loadedFiles[i] EXCEPT !.lineOffsets = <<>>,
                                              !.lineOffsetsComputed = FALSE]]
  /\ smCall' = Call("clearCache", "", 0, 0, 0)
  /\ UNCHANGED <<filenameToFileID, nextLocationID, g_location_cache, fmVars, thr, langVars>>

SMNext ==
  \/ \E path \in Paths : CreateFileID(path)
  \/ \E loc \in Locs : GetFileID(loc)
  \/ \E loc \in Locs : GetFileOffset(loc)
  \/ \E loc \in Locs : GetLineNumber(loc)
  \/ \E loc \in Locs : GetColumnNumber(loc)
  \/ \E loc \in Locs : GetLineAndColumn(loc)
  \/ ClearCache

---------------------------------------------------------------------------
(* The lexer's keyword lookup.  Spellings are sequences of bytes.          *)

(* std::string_view operator< : the first differing byte decides, then the *)
(* shorter one is the smaller                                              *)
Less(a, b) ==
  LET n == IF Len(a) < Len(b) THEN Len(a) ELSE Len(b)
      diff == {i \in 1..n : a[i] # b[i]}
  IN IF diff = {}
       THEN Len(a) < Len(b)
       ELSE LET i == CHOOSE j \in diff : \A k \in diff : j <= k
            IN a[i] < b[i]

(* KEYWORD_TABLE: a std::array of 27 pairs initialised with 26, in the     *)
(* order of the source; the 27th pair is value-initialised (empty          *)
(* spelling, TokenKind 0 = Unknown)                                        *)
KEYWORD_TABLE ==
  <<
    [first |-> <<97, 117, 116, 111>>, second |-> "Auto"],  \* auto
    [first |-> <<98, 114, 101, 97, 107>>, second |-> "Break"],  \* break
    [first |-> <<99, 97, 115, 101>>, second |-> "Case"],  \* case
    [first |-> <<99, 111, 110, 115, 116>>, second |-> "Const"],  \* const
    [first |-> <<99, 111, 110, 116, 105, 110, 117, 101>>, second |-> "Continue"],  \* continue
    [first |-> <<100, 101, 102, 97, 117, 108, 116>>, second |-> "Default"],  \* default
    [first |-> <<100, 111>>, second |-> "Do"],  \* do
    [first |-> <<101, 108, 115, 101>>, second |-> "Else"],  \* else
    [first |-> <<101, 110, 117, 109>>, second |-> "Enum"],  \* enum
    [first |-> <<101, 120, 116, 101, 114, 110>>, second |-> "Extern"],  \* extern
    [first |-> <<102, 97, 108, 115, 101>>, second |-> "False"],  \* false
    [first |-> <<102, 111, 114>>, second |-> "For"],  \* for
    [first |-> <<102, 110>>, second |-> "Fn"],  \* fn
    [first |-> <<105, 102>>, second |-> "If"],  \* if
    [first |-> <<105, 109, 112, 111, 114, 116>>, second |-> "Import"],  \* import
    [first |-> <<108, 101, 116>>, second |-> "Let"],  \* let
    [first |-> <<109, 111, 100>>, second |-> "Mod"],  \* mod
    [first |-> <<109, 117, 116>>, second |-> "Mut"],  \* mut
    [first |-> <<110, 117, 108, 108>>, second |-> "Null"],  \* null
    [first |-> <<114, 101, 116, 117, 114, 110>>, second |-> "Return"],  \* return
    [first |-> <<115, 116, 114, 117, 99, 116>>, second |-> "Struct"],  \* struct
    [first |-> <<115, 119, 105, 116, 99, 104>>, second |-> "Switch"],  \* switch
    [first |-> <<116, 114, 117, 101>>, second |-> "True"],  \* true
    [first |-> <<116, 121, 112, 101>>, second |-> "Type"],  \* type
    [first |-> <<118, 97, 114>>, second |-> "Var"],  \* var
    [first |-> <<119, 104, 105, 108, 101>>, second |-> "While"],  \* while
    [first |-> <<>>, second |-> "Unknown"]  \* (value-initialised)
  >>

(* std::lower_bound over [first, first + len) of KEYWORD_TABLE with the    *)
(* comparison pair.first < key: the halving loop; positions are 1-based    *)
(* and Len + 1 is end()                                                    *)
RECURSIVE LowerBoundKeyword(_, _, _)
LowerBoundKeyword(first, len, key) ==
  IF len <= 0
    THEN first
    ELSE LET half == len \div 2
             mid == first + half
         IN IF Less(KEYWORD_TABLE[mid].first, key)
              THEN LowerBoundKeyword(mid + 1, len - half - 1, key)
              ELSE LowerBoundKeyword(first, half, key)

(* getKeywordKindFast *)
getKeywordKindFast(text) ==
  LET it == LowerBoundKeyword(1, Len(KEYWORD_TABLE), text)
  IN IF it # Len(KEYWORD_TABLE) + 1 /\ KEYWORD_TABLE[it].first = text
       THEN KEYWORD_TABLE[it].second
       ELSE "Identifier"

(* Lexer::makeIdentifierToken: the token, and which counter it bumps.      *)
(* An identifier carries its interned spelling, a keyword carries the      *)
(* IsKeyword flag and no text.                                             *)
makeIdentifierToken(text) ==
  LET kind == getKeywordKindFast(text)
  IN IF kind = "Identifier"
       THEN [kind |-> kind, length |-> Len(text), flags |-> {},
             hasText |-> TRUE, text |-> text]
       ELSE [kind |-> kind, length |-> Len(text), flags |-> {"IsKeyword"},
             hasText |-> FALSE, text |-> <<>>]

(* The identifier-shaped lexemes the lexer is fed: every keyword, and      *)
(* spellings that are not keywords (x, f, fo, fora, whil, whilex, If, _,   *)
(* zeta, i) or are keywords only to TokenInfo (function, module)           *)
Keywords == {KEYWORD_TABLE[i] : i \in 1..(Len(KEYWORD_TABLE) - 1)}

Lexemes ==
  {k.first : k \in Keywords}
    \cup {<<120>>, <<102>>, <<102, 111>>, <<102, 111, 114, 97>>,
          <<119, 104, 105, 108>>, <<119, 104, 105, 108, 101, 120>>,
          <<73, 102>>, <<95>>, <<122, 101, 116, 97>>, <<105>>,
          <<102, 117, 110, 99, 116, 105, 111, 110>>, <<109, 111, 100, 117, 108, 101>>}

MaxTokens == 2

KWInit ==
  /\ lexed = <<>>
  /\ lexStats = [identifierCount |-> 0, keywordCount |-> 0]

(* Lexer::lexIdentifier over a lexeme of the buffer: the scan stops at the *)
(* lexeme's end and makeIdentifierToken makes the token                    *)
LexIdentifier(text) ==
  /\ Len(lexed) < MaxTokens
  /\ LET token == makeIdentifierToken(text)
     IN /\ lexed' = Append(lexed, [spelling |-> text, token |-> token])
        /\ lexStats' = IF token.kind = "Identifier"
                         THEN [lexStats EXCEPT !.identifierCount = @ + 1]
                         ELSE [lexStats EXCEPT !.keywordCount = @ + 1]
  /\ UNCHANGED notKW

(* A new Lexer over the next buffer *)
NewLexer ==
  /\ lexed # <<>>
  /\ lexed' = <<>>
  /\ lexStats' = [identifierCount |-> 0, keywordCount |-> 0]
  /\ UNCHANGED notKW

KWNext ==
  \/ \E text \in Lexemes : LexIdentifier(text)
  \/ NewLexer

---------------------------------------------------------------------------
Threads == {"t1", "t2"}

Idle == [pc |-> "idle", op |-> "", path |-> "", entry |-> NoEntry, fid |-> 0, via |-> ""]

ThreadsInit == thr = [t \in Threads |-> Idle]

---------------------------------------------------------------------------
(* StringInterner.  A handle (InternedString) is a pointer: null, the      *)
(* function-local static empty_str of intern, or the address of the bytes  *)
(* a StringStorage owns.                                                   *)

InvalidString == [region |-> "null", addr |-> 0]

EmptyStr == [region |-> "static", addr |-> 0]

HeapString(a) == [region |-> "heap", addr |-> a]

(* The byte sequences interned: empty, "a", "b" *)
Strings == {<<>>, <<97>>, <<98>>}

MaxAddr == 2
MaxLookups == 3

Addrs == 1..MaxAddr

(* An address that holds no StringStorage data *)
Free == <<-1>>

(* The addresses operator new can hand out: any that is not in use *)
FreeAddrs_Any(mem) == Addrs

FreeAddrs(mem) == {a \in Addrs : mem[a] = Free}

(* The constructor's Storage.reserve(1000) *)
InitialReserve == 1000

(* unordered_set::reserve(count): at least count buckets and at least one  *)
(* per element                                                             *)
Reserved(count, size) ==
  IF count >= size /\ count >= 1 THEN count
  ELSE IF size >= 1 THEN size ELSE 1

(* StringInternerStats{}; averageLength, a double that intern recomputes   *)
(* from uniqueStringCount and the lengths, is not kept                     *)
EmptyStats == [lookupCount |-> 0, internCount |-> 0, uniqueStringCount |-> 0,
               collisionCount |-> 0, memoryUsedCount |-> 0]

(* The interner's tables as one value *)
SI == [Storage |-> Storage, LookupMap |-> LookupMap, heap |-> heap,
       bucket_count |-> bucket_count, stats |-> internerStats]

(* LookupMap.find(str): the entries whose key, a view of stored bytes,     *)
(* equals str; none is end()                                               *)
LookupMapFind(si, str) == {e \in si.LookupMap : si.heap[e.key] = str}

(* LookupMap[storedView] = ptr: an entry with an equal key keeps its key   *)
(* and gets the new value                                                  *)
LookupMapAssign(si, ptr) ==
  LET same == LookupMapFind(si, si.heap[ptr])
  IN IF same = {}
       THEN si.LookupMap \cup {[key |-> ptr, value |-> ptr]}
       ELSE (si.LookupMap \ same) \cup {[key |-> e.key, value |-> ptr] : e \in same}

(* intern, the re-check under the exclusive lock *)
internRecheck_Skipped(si, str) == {}

internRecheck(si, str) == LookupMapFind(si, str)

(* intern: make_unique<StringStorage>, the reserve before the insert, and  *)
(* Storage.insert, which hashes the unique_ptr and so always inserts       *)
internStore(si, str, ptr) ==
  LET n == Cardinality(si.Storage)
      grown == IF 4 * n >= 3 * si.bucket_count
                 THEN Reserved(n * 2, n) ELSE si.bucket_count
      inserted == ptr \notin si.Storage
  IN [si |-> [si EXCEPT !.heap = [si.heap EXCEPT ![ptr] = str],
                        !.Storage = si.Storage \cup {ptr},
                        !.bucket_count = IF inserted /\ n + 1 > grown
                                           THEN n + 1 ELSE grown,
                        !.stats.collisionCount = IF inserted THEN @ ELSE @ + 1],
      inserted |-> inserted]

(* intern: the LookupMap entry and the statistics *)
internPublish(si, ptr) ==
  [si EXCEPT !.LookupMap = LookupMapAssign(si, ptr),
             !.stats.internCount = @ + 1,
             !.stats.uniqueStringCount = @ + 1,
             !.stats.memoryUsedCount = @ + Len(si.heap[ptr]) + 1]

(* lookup *)
lookup(si, str) ==
  LET it == LookupMapFind(si, str)
  IN IF it # {} THEN HeapString((CHOOSE e \in it : TRUE).value) ELSE InvalidString

(* contains *)
contains(si, str) == Cardinality(LookupMapFind(si, str)) > 0

(* size *)
size(si) == Cardinality(si.Storage)

(* A stored string that the lookup map does not lead to, or a map entry    *)
(* that leads to no stored string: an insert that is half done             *)
PartialInsert(si) ==
  \/ \E p \in si.Storage : ~\E e \in si.LookupMap : e.value = p
  \/ \E e \in si.LookupMap : e.value \notin si.Storage \/ si.heap[e.key] = Free

SIIdle == [pc |-> "idle", op |-> "", str |-> <<>>, seen |-> 0, ptr |-> 0,
           found |-> FALSE, count |-> 0,
           res |-> InvalidString, via |-> "", partial |-> FALSE]

SIInit ==
  /\ Storage = {}
  /\ LookupMap = {}
  /\ heap = [a \in Addrs |-> Free]
  /\ bucket_count = InitialReserve
  /\ internerStats = EmptyStats
  /\ Mutex = "none"
  /\ issued = {}
  /\ ith = [t \in Threads |-> SIIdle]

SetSI(si) ==
  /\ Storage' = si.Storage
  /\ LookupMap' = si.LookupMap
  /\ heap' = si.heap
  /\ bucket_count' = si.bucket_count
  /\ internerStats' = si.stats

SIAtRest(t) == ith[t].pc \in {"idle", "done"}

(* std::shared_lock lock(Mutex) can be taken *)
SharedLockFree == Mutex = "none"

(* std::unique_lock lock(Mutex) can be taken; the shared sections are      *)
(* single steps, so no reader is inside one between two steps              *)
UniqueLockFree == Mutex = "none"

(* The return of intern: the caller gets the handle *)
Return(t, handle, via) ==
  /\ ith' = [ith EXCEPT ![t] = [SIIdle EXCEPT !.pc = "done", !.op = "intern",
                                           !.str = ith[t].str, !.res = handle,
                                           !.via = via]]
  /\ issued' = issued \cup {[str |-> ith[t].str, handle |-> handle]}

(* intern is entered: ++stats.lookupCount reads the counter, outside any   *)
(* lock                                                                    *)
CallIntern(t, str) ==
  /\ SIAtRest(t)
  /\ internerStats.lookupCount < MaxLookups
  /\ ith' = [ith EXCEPT ![t] = [SIIdle EXCEPT !.pc = "count", !.op = "intern",
                                           !.str = str,
                                           !.seen = internerStats.lookupCount]]
  /\ UNCHANGED <<Storage, LookupMap, heap, bucket_count, internerStats, Mutex, issued>>
  /\ UNCHANGED notSI

(* ++stats.lookupCount writes the counter back; the empty string returns   *)
(* the static handle                                                       *)
InternCount(t) ==
  /\ ith[t].pc = "count"
  /\ internerStats' = [internerStats EXCEPT !.lookupCount = ith[t].seen + 1]
  /\ IF ith[t].str = <<>>
       THEN Return(t, EmptyStr, "empty")
       ELSE /\ ith' = [ith EXCEPT ![t].pc = "fast"]
            /\ UNCHANGED issued
  /\ UNCHANGED <<Storage, LookupMap, heap, bucket_count, Mutex>>
  /\ UNCHANGED notSI

(* intern, the fast path under the shared lock *)
InternFast(t) ==
  /\ ith[t].pc = "fast"
  /\ SharedLockFree
  /\ LET it == LookupMapFind(SI, ith[t].str)
     IN IF it # {}
          THEN Return(t, HeapString((CHOOSE e \in it : TRUE).value), "fast")
          ELSE /\ ith' = [ith EXCEPT ![t].pc = "lock"]
               /\ UNCHANGED issued
  /\ UNCHANGED <<Storage, LookupMap, heap, bucket_count, internerStats, Mutex>>
  /\ UNCHANGED notSI

(* intern, the slow path: the exclusive lock and the re-check *)
InternLock(t) ==
  /\ ith[t].pc = "lock"
  /\ UniqueLockFree
  /\ LET it == internRecheck(SI, ith[t].str)
     IN IF it # {}
          THEN /\ Return(t, HeapString((CHOOSE e \in it : TRUE).value), "recheck")
               /\ UNCHANGED Mutex
          ELSE /\ ith' = [ith EXCEPT ![t].pc = "store"]
               /\ Mutex' = t
               /\ UNCHANGED issued
  /\ UNCHANGED <<Storage, LookupMap, heap, bucket_count, internerStats>>
  /\ UNCHANGED notSI

(* intern, under the exclusive lock: the new StringStorage goes into       *)
(* Storage                                                                 *)
InternStore(t) ==
  /\ ith[t].pc = "store"
  /\ \E ptr \in FreeAddrs(heap) :
       LET r == internStore(SI, ith[t].str, ptr)
       IN /\ SetSI(r.si)
          /\ IF r.inserted
               THEN /\ ith' = [ith EXCEPT ![t].pc = "publish", ![t].ptr = ptr]
                    /\ UNCHANGED <<Mutex, issued>>
               ELSE /\ Return(t, HeapString(ptr), "collision")
                    /\ Mutex' = "none"
  /\ UNCHANGED notSI

(* intern, under the exclusive lock: the LookupMap entry, the statistics,  *)
(* and the return, which releases the lock                                 *)
InternPublish(t) ==
  /\ ith[t].pc = "publish"
  /\ SetSI(internPublish(SI, ith[t].ptr))
  /\ Return(t, HeapString(ith[t].ptr), "inserted")
  /\ Mutex' = "none"
  /\ UNCHANGED notSI

(* What a call under the shared lock hands back *)
Observe(t, op, str, res, found, count) ==
  /\ ith' = [ith EXCEPT ![t] = [SIIdle EXCEPT !.pc = "done", !.op = op, !.str = str,
                                           !.res = res, !.found = found,
                                           !.count = count,
                                           !.partial = PartialInsert(SI)]]
  /\ UNCHANGED <<Storage, LookupMap, heap, bucket_count, internerStats, Mutex, issued>>
  /\ UNCHANGED notSI

Lookup(t, str) ==
  /\ SIAtRest(t)
  /\ SharedLockFree
  /\ Observe(t, "lookup", str, lookup(SI, str), FALSE, 0)

Contains(t, str) ==
  /\ SIAtRest(t)
  /\ SharedLockFree
  /\ Observe(t, "contains", str, InvalidString, contains(SI, str), 0)

Size(t) ==
  /\ SIAtRest(t)
  /\ SharedLockFree
  /\ Observe(t, "size", <<>>, InvalidString, FALSE, size(SI))

(* StringInterner::reserve *)
Reserve(count) ==
  /\ UniqueLockFree
  /\ bucket_count' = Reserved(count, Cardinality(Storage))
  /\ UNCHANGED <<Storage, LookupMap, heap, internerStats, Mutex, issued, ith>>
  /\ UNCHANGED notSI

(* StringInterner::clear: the strings are freed, the buckets stay *)
Clear ==
  /\ UniqueLockFree
  /\ Storage' = {}
  /\ LookupMap' = {}
  /\ heap' = [a \in Addrs |-> Free]
  /\ internerStats' = EmptyStats
  /\ issued' = {}
  /\ UNCHANGED <<bucket_count, Mutex, ith>>
  /\ UNCHANGED notSI

SINext ==
  \/ \E t \in Threads, str \in Strings : CallIntern(t, str)
  \/ \E t \in Threads : InternCount(t)
  \/ \E t \in Threads : InternFast(t)
  \/ \E t \in Threads : InternLock(t)
  \/ \E t \in Threads : InternStore(t)
  \/ \E t \in Threads : InternPublish(t)
  \/ \E t \in Threads, str \in Strings : Lookup(t, str)
  \/ \E t \in Threads, str \in Strings : Contains(t, str)
  \/ \E t \in Threads : Size(t)
  \/ Reserve(1)
  \/ Clear

---------------------------------------------------------------------------
---------------------------------------------------------------------------
(* DiagnosticManager *)

DiagnosticLevel == {"Note", "Warning", "Error", "Fatal"}

(* The static table: the .inc files that fill it give every id one of the  *)
(* four levels; one id of each level stands for the ids of that level      *)
sDiagnosticInfos ==
  [id \in {"note_id", "warning_id", "error_id", "fatal_id"} |->
     [Level |-> CASE id = "note_id" -> "Note"
                  [] id = "warning_id" -> "Warning"
                  [] id = "error_id" -> "Error"
                  [] id = "fatal_id" -> "Fatal"]]

(* The ids report is called with: the table's, and one past its end *)
DiagIDs == DOMAIN sDiagnosticInfos \cup {"NumDiagnostics"}

(* DiagnosticManager::getDiagnosticInfo *)
getDiagnosticInfo(id) ==
  IF id \notin DOMAIN sDiagnosticInfos
    THEN [Level |-> "Error"]
    ELSE sDiagnosticInfos[id]

MaxReports == 2

(* The consumer objects a driver registers, in this order: a               *)
(* TextDiagnosticConsumer and a JSONDiagnosticConsumer                     *)
Consumers == <<"text", "json">>

(* The values setMaxErrors is called with; 0 = unlimited *)
MaxErrorsValues == {0, 2}

(* DiagnosticStats{} *)
NoStats == [noteCount |-> 0, warningCount |-> 0, errorCount |-> 0,
            fatalCount |-> 0, diagnosticCount |-> 0]

(* The manager as one value *)
DM == [stats |-> diagStats, suppressWarnings |-> suppressWarnings,
       suppressNotes |-> suppressNotes, warningsAsErrors |-> warningsAsErrors,
       maxErrors |-> maxErrors, consumers |-> consumers]

(* DiagnosticManager::shouldSuppress *)
shouldSuppress_Nothing(dm, info) == FALSE

shouldSuppress(dm, info) ==
  CASE info.Level = "Note" -> dm.suppressNotes
    [] info.Level = "Warning" -> dm.suppressWarnings
    [] OTHER -> FALSE

(* DiagnosticManager::updateStats *)
updateStats_OtherLevelsLost(stats, level) ==
  LET s == CASE level = "Note" -> [NoStats EXCEPT !.noteCount = stats.noteCount + 1]
             [] level = "Warning" -> [NoStats EXCEPT !.warningCount = stats.warningCount + 1]
             [] level = "Error" -> [NoStats EXCEPT !.errorCount = stats.errorCount + 1]
             [] level = "Fatal" -> [NoStats EXCEPT !.fatalCount = stats.fatalCount + 1]
  IN [s EXCEPT !.diagnosticCount = stats.diagnosticCount + 1]

updateStats(stats, level) ==
  LET s == CASE level = "Note" -> [stats EXCEPT !.noteCount = @ + 1]
             [] level = "Warning" -> [stats EXCEPT !.warningCount = @ + 1]
             [] level = "Error" -> [stats EXCEPT !.errorCount = @ + 1]
             [] level = "Fatal" -> [stats EXCEPT !.fatalCount = @ + 1]
  IN [s EXCEPT !.diagnosticCount = @ + 1]

(* report: warnings are treated as errors if configured *)
effectiveLevel_NeverPromoted(dm, info) == info.Level

effectiveLevel(dm, info) ==
  IF dm.warningsAsErrors /\ info.Level = "Warning" THEN "Error" ELSE info.Level

(* report: the error limit is hit *)
errorLimitHit_Never(dm) == FALSE

errorLimitHit(dm) == dm.maxErrors > 0 /\ dm.stats.errorCount >= dm.maxErrors

(* report: the loop over the consumers; the handleDiagnostic calls it      *)
(* makes, in order: the consumer, the diagnostic (its number and the level *)
(* the table gives its id) and the level of the effective info             *)
dispatch_Backwards(dm, diag, level) ==
  [i \in DOMAIN dm.consumers |->
     [consumer |-> dm.consumers[Len(dm.consumers) + 1 - i], diag |-> diag.n,
      tableLevel |-> getDiagnosticInfo(diag.id).Level, Level |-> level]]

dispatch(dm, diag, level) ==
  [i \in DOMAIN dm.consumers |->
     [consumer |-> dm.consumers[i], diag |-> diag.n,
      tableLevel |-> getDiagnosticInfo(diag.id).Level, Level |-> level]]

(* DiagnosticManager::report: the manager afterwards and the calls of      *)
(* handleDiagnostic it made, in order                                      *)
report(dm, diag) ==
  LET info == getDiagnosticInfo(diag.id)
  IN IF shouldSuppress(dm, info)
       THEN [dm |-> dm, handled |-> <<>>]
       ELSE LET level == effectiveLevel(dm, info)
                counted == [dm EXCEPT !.stats = updateStats(dm.stats, level)]
            IN IF errorLimitHit(counted)
                 THEN [dm |-> counted, handled |-> <<>>]
                 ELSE [dm |-> counted, handled |-> dispatch(counted, diag, level)]

(* DiagnosticManager::shouldContinue *)
shouldContinue_FatalIgnored(dm) ==
  ~(dm.maxErrors > 0 /\ dm.stats.errorCount >= dm.maxErrors)

shouldContinue(dm) ==
  IF dm.stats.fatalCount > 0
    THEN FALSE
    ELSE IF dm.maxErrors > 0 /\ dm.stats.errorCount >= dm.maxErrors
           THEN FALSE
           ELSE TRUE

DMInit ==
  /\ diagStats = NoStats
  /\ suppressWarnings = FALSE
  /\ suppressNotes = FALSE
  /\ warningsAsErrors = FALSE
  /\ maxErrors = 0
  /\ consumers = <<>>
  /\ nextConsumer = 0
  /\ delivered = <<>>
  /\ reported = 0
  /\ fatalReported = FALSE
  /\ dmCall = "other"

(* report(id, loc) *)
Report(id) ==
  /\ reported < MaxReports
  /\ LET diag == [id |-> id, n |-> reported + 1]
         r == report(DM, diag)
     IN /\ diagStats' = r.dm.stats
        /\ delivered' = delivered \o r.handled
  /\ reported' = reported + 1
  /\ fatalReported' = (fatalReported \/ getDiagnosticInfo(id).Level = "Fatal")
  /\ dmCall' = "other"
  /\ UNCHANGED <<suppressWarnings, suppressNotes, warningsAsErrors, maxErrors,
                 consumers>>
  /\ UNCHANGED <<nextConsumer, notDM>>

SetSuppressWarnings(suppress) ==
  /\ suppressWarnings' = suppress
  /\ dmCall' = "other"
  /\ UNCHANGED <<diagStats, suppressNotes, warningsAsErrors, maxErrors, consumers,
                 delivered, reported, fatalReported>>
  /\ UNCHANGED <<nextConsumer, notDM>>

SetSuppressNotes(suppress) ==
  /\ suppressNotes' = suppress
  /\ dmCall' = "other"
  /\ UNCHANGED <<diagStats, suppressWarnings, warningsAsErrors, maxErrors, consumers,
                 delivered, reported, fatalReported>>
  /\ UNCHANGED <<nextConsumer, notDM>>

SetWarningsAsErrors(enable) ==
  /\ warningsAsErrors' = enable
  /\ dmCall' = "other"
  /\ UNCHANGED <<diagStats, suppressWarnings, suppressNotes, maxErrors, consumers,
                 delivered, reported, fatalReported>>
  /\ UNCHANGED <<nextConsumer, notDM>>

SetMaxErrors(max) ==
  /\ maxErrors' = max
  /\ dmCall' = "other"
  /\ UNCHANGED <<diagStats, suppressWarnings, suppressNotes, warningsAsErrors, consumers,
                 delivered, reported, fatalReported>>
  /\ UNCHANGED <<nextConsumer, notDM>>

(* DiagnosticManager::reset *)
Reset ==
  /\ diagStats' = NoStats
  /\ fatalReported' = FALSE
  /\ dmCall' = "other"
  /\ UNCHANGED <<suppressWarnings, suppressNotes, warningsAsErrors, maxErrors,
                 consumers, delivered, reported>>
  /\ UNCHANGED <<nextConsumer, notDM>>

(* DiagnosticManager::addConsumer *)
AddConsumer ==
  /\ nextConsumer < Len(Consumers)
  /\ consumers' = Append(consumers, Consumers[nextConsumer + 1])
  /\ nextConsumer' = nextConsumer + 1
  /\ dmCall' = "other"
  /\ UNCHANGED <<diagStats, suppressWarnings, suppressNotes, warningsAsErrors,
                 maxErrors, delivered, reported, fatalReported>>
  /\ UNCHANGED notDM

(* DiagnosticManager::clearConsumers *)
ClearConsumers ==
  /\ consumers # <<>>
  /\ consumers' = <<>>
  /\ dmCall' = "other"
  /\ UNCHANGED <<diagStats, suppressWarnings, suppressNotes, warningsAsErrors,
                 maxErrors, delivered, reported, fatalReported>>
  /\ UNCHANGED <<nextConsumer, notDM>>

ShouldContinue ==
  /\ dmCall' = IF shouldContinue(DM) THEN "continue" ELSE "stop"
  /\ UNCHANGED <<diagStats, suppressWarnings, suppressNotes, warningsAsErrors,
                 maxErrors, consumers, delivered, reported, fatalReported>>
  /\ UNCHANGED <<nextConsumer, notDM>>

DMNext ==
  \/ \E id \in DiagIDs : Report(id)
  \/ \E suppress \in BOOLEAN : SetSuppressWarnings(suppress)
  \/ \E suppress \in BOOLEAN : SetSuppressNotes(suppress)
  \/ \E enable \in BOOLEAN : SetWarningsAsErrors(enable)
  \/ \E max \in MaxErrorsValues : SetMaxErrors(max)
  \/ Reset
  \/ AddConsumer
  \/ ClearConsumers
  \/ ShouldContinue

---------------------------------------------------------------------------
(* Lexer (Lexer.cpp).  Positions are offsets from source.data(); a lexer   *)
(* is the record lx = [source, options, current, lineStart, currentLine,   *)
(* diags].  The LexerStats counters are written and never read by the      *)
(* scanning code, and are left out.                                        *)

(* A local variable of the code: the value is computed once, where it is   *)
(* declared, and Body reads it.                                            *)
With(value, Body(_)) == CHOOSE result \in {Body(v) : v \in {value}} : TRUE

(* CHAR_CLASS_TABLE: the class bits of each of the 256 byte values *)
CHAR_CLASS_TABLE ==
  [c \in 0..255 |->
     IF c \in 97..122 THEN (IF c <= 102 THEN {"ALPHA", "HEX"} ELSE {"ALPHA"})
     ELSE IF c \in 65..90 THEN (IF c <= 70 THEN {"ALPHA", "HEX"} ELSE {"ALPHA"})
     ELSE IF c \in 48..57 THEN {"DIGIT", "HEX"}
     ELSE IF c \in {32, 9, 11, 12} THEN {"WHITESPACE"}
     ELSE IF c \in {10, 13} THEN {"NEWLINE"}
     ELSE IF c = 95 THEN {"ALPHA"}
     ELSE {}]

isAlphaFast(c) == "ALPHA" \in CHAR_CLASS_TABLE[c]
isDigitFast(c) == "DIGIT" \in CHAR_CLASS_TABLE[c]
isAlnumFast(c) == CHAR_CLASS_TABLE[c] \cap {"ALPHA", "DIGIT"} # {}
isWhitespaceFast(c) == "WHITESPACE" \in CHAR_CLASS_TABLE[c]
isNewlineFast(c) == "NEWLINE" \in CHAR_CLASS_TABLE[c]
isHexDigitFast(c) == "HEX" \in CHAR_CLASS_TABLE[c]

(* Lexer::isAlpha, isDigit, isWhitespace, isNewline: the table, or the     *)
(* comparisons when enableLookupTables is off.                             *)
isAlpha(options, c) ==
  IF options.enableLookupTables THEN isAlphaFast(c)
  ELSE (c >= 97 /\ c <= 122) \/ (c >= 65 /\ c <= 90)

isDigit(options, c) ==
  IF options.enableLookupTables THEN isDigitFast(c)
  ELSE c >= 48 /\ c <= 57

isWhitespace(options, c) ==
  IF options.enableLookupTables THEN isWhitespaceFast(c)
  ELSE c = 32 \/ c = 9 \/ c = 11 \/ c = 12

isNewline(options, c) ==
  IF options.enableLookupTables THEN isNewlineFast(c)
  ELSE c = LF \/ c = CR

(* The byte ptr points at, for a ptr below end *)
ByteAt(source, ptr) == source[ptr + 1]

(* The scanning loops: ptr moves on while it is below end and the byte    *)
(* there is in the class.                                                  *)
RECURSIVE ScanWhile(_, _, _)
ScanWhile(source, ptr, class) ==
  IF ptr < Len(source) /\ ByteAt(source, ptr) \in class
    THEN ScanWhile(source, ptr + 1, class)
    ELSE ptr

Bytes == 0..255

(* The bytes of each class of the table *)
AlphaFastBytes == {c \in Bytes : isAlphaFast(c)}
DigitFastBytes == {c \in Bytes : isDigitFast(c)}
HexDigitFastBytes == {c \in Bytes : isHexDigitFast(c)}
IdentifierBytes == {c \in Bytes : isAlnumFast(c) \/ c = 95}
WhitespaceFastBytes == {c \in Bytes : isWhitespaceFast(c)}
NotNewlineFastBytes == {c \in Bytes : ~isNewlineFast(c)}

(* The scalar whitespace loop: ptr moves on while it is below end and the *)
(* byte there is whitespace by the table or, with enableLookupTables off, *)
(* by Lexer::isWhitespace.                                                 *)
RECURSIVE ScanWhitespace(_, _, _)
ScanWhitespace(source, ptr, options) ==
  IF ptr < Len(source) /\ isWhitespace(options, ByteAt(source, ptr))
    THEN ScanWhitespace(source, ptr + 1, options)
    ELSE ptr

HexDigits == {c \in Bytes : (c >= 48 /\ c <= 57) \/ (c >= 65 /\ c <= 70) \/ (c >= 97 /\ c <= 102)}
OctalDigits == 48..55

(* The loops over the digits of an escape: at most n bytes of the class *)
RECURSIVE ScanUpTo(_, _, _, _)
ScanUpTo(source, ptr, class, n) ==
  IF n > 0 /\ ptr < Len(source) /\ ByteAt(source, ptr) \in class
    THEN ScanUpTo(source, ptr + 1, class, n - 1)
    ELSE ptr

(* skipWhitespaceSimdWithStats, SSE2 build: 16-byte chunks while a whole   *)
(* chunk is left, stopping at the first byte of a chunk that is not one of *)
(* space, tab, vtab, form feed; then the scalar loop.  (The AVX2 build     *)
(* does the same with 32-byte chunks.)                                     *)
RECURSIVE skipWhitespaceSimd(_, _)
skipWhitespaceSimd(source, ptr) ==
  IF ptr + 16 <= Len(source)
    THEN LET notws == {k \in 0..15 : ByteAt(source, ptr + k) \notin {32, 9, 11, 12}}
         IN IF notws # {}
              THEN ptr + (CHOOSE k \in notws : \A j \in notws : k <= j)
              ELSE skipWhitespaceSimd(source, ptr + 16)
    ELSE ScanWhile(source, ptr, WhitespaceFastBytes)

(* Lexer::peek *)
peek(lx, offset) ==
  IF lx.current + offset >= Len(lx.source) THEN NUL
  ELSE ByteAt(lx.source, lx.current + offset)

(* Lexer::match(char): advance over the byte when it is the expected one *)
match(lx, expected) ==
  IF peek(lx, 0) # expected THEN [lx |-> lx, res |-> FALSE]
  ELSE IF lx.current >= Len(lx.source) THEN [lx |-> lx, res |-> TRUE]
  ELSE [lx |-> [lx EXCEPT !.current = @ + 1], res |-> TRUE]

(* Lexer::handleNewline *)
handleNewline(lx) ==
  With(match(lx, CR), LAMBDA cr :
  With(IF cr.res THEN match(cr.lx, LF).lx ELSE match(lx, LF).lx, LAMBDA after :
    [after EXCEPT !.currentLine = @ + 1, !.lineStart = after.current]))

(* Lexer::skipWhitespace *)
skipWhitespace(lx) ==
  IF lx.options.enableSimdOptimizations
    THEN [lx EXCEPT !.current = skipWhitespaceSimd(lx.source, lx.current)]
    ELSE [lx EXCEPT !.current = ScanWhitespace(lx.source, lx.current, lx.options)]

(* Lexer::skipLineComment *)
skipLineComment(lx) ==
  [lx EXCEPT !.current =
     ScanWhile(lx.source, lx.current + 2, NotNewlineFastBytes)]

(* The loop of Lexer::skipBlockComment from ptr on: to the byte after the  *)
(* closing star-slash, lines counted on the way, or to where fewer than    *)
(* two bytes are left.                                                     *)
RECURSIVE BlockCommentLoop(_, _)
BlockCommentLoop(lx, ptr) ==
  IF ptr + 1 < Len(lx.source)
    THEN IF ByteAt(lx.source, ptr) = 42 /\ ByteAt(lx.source, ptr + 1) = 47
           THEN [lx EXCEPT !.current = ptr + 2]
         ELSE IF isNewlineFast(ByteAt(lx.source, ptr))
           THEN With(handleNewline([lx EXCEPT !.current = ptr]), LAMBDA l :
                  BlockCommentLoop(l, l.current))
         ELSE BlockCommentLoop(lx, ptr + 1)
    ELSE [lx EXCEPT !.current = ptr]

(* Lexer::skipBlockComment *)
skipBlockComment(lx) == BlockCommentLoop(lx, lx.current + 2)

(* Lexer::skipTrivialOptimized *)
RECURSIVE skipTrivialOptimized(_)
skipTrivialOptimized(lx) ==
  IF lx.current >= Len(lx.source) THEN lx
  ELSE
    LET c == ByteAt(lx.source, lx.current)
        \* continue: the loop goes round with the lexer as the branch left it
        continue(after) == With(after, LAMBDA l : skipTrivialOptimized(l))
    IN IF isWhitespace(lx.options, c)
         THEN continue(
                IF lx.options.enableSimdOptimizations
                  THEN [lx EXCEPT !.current = skipWhitespaceSimd(lx.source, lx.current)]
                  ELSE [lx EXCEPT !.current =
                          ScanWhitespace(lx.source, lx.current, lx.options)])
       ELSE IF isNewline(lx.options, c)
         THEN continue(handleNewline(lx))
       ELSE IF c = 47 /\ lx.current + 1 < Len(lx.source)
         THEN LET next == ByteAt(lx.source, lx.current + 1)
              IN IF next = 47
                   THEN continue(
                          [lx EXCEPT !.current =
                             ScanWhile(lx.source, lx.current + 2,
                                       NotNewlineFastBytes)])
                 ELSE IF next = 42
                   THEN continue(BlockCommentLoop(lx, lx.current + 2))
                 ELSE lx
       ELSE lx

(* The SourceManager the lexer was constructed with: its table holds the   *)
(* lexed file, registered first (FileID 1, starting at location 1).        *)
srcMgr(source) ==
  <<FileInfo([filename |-> "in.ml", data |-> source, id |-> 1], 1)>>

(* Lexer::getLocationAt (srcMgr is set and fid is valid) *)
getLocationAt(lx, pos) == getLocForFileOffset(srcMgr(lx.source), 1, pos)

(* Token(kind, loc, length): no flags, no text *)
Token(kind, loc, length) ==
  [kind |-> kind, loc |-> loc, length |-> length, flags |-> {},
   hasText |-> FALSE, text |-> <<>>]

NoToken == Token("none", 0, 0)

makeTokenHere_Unknown(lx, kind) == Token("Unknown", getLocationAt(lx, lx.current), 0)

(* Lexer::makeToken(kind): an empty token at the current position *)
makeTokenHere(lx, kind) == Token(kind, getLocationAt(lx, lx.current), 0)

(* Lexer::makeToken(kind, start, end) *)
makeToken(lx, kind, start, end) == Token(kind, getLocationAt(lx, start), end - start)

makeTokenBack_AtCurrent(lx, kind, length) ==
  Token(kind, getLocationAt(lx, lx.current), length)

(* Lexer::makeToken(kind, length) *)
makeTokenBack(lx, kind, length) == Token(kind, getLocationAt(lx, lx.current - length), length)

(* Token::setText(interner.intern(text)) *)
setText(token, text) == [token EXCEPT !.hasText = TRUE, !.text = text]

addFlag(token, flag) == [token EXCEPT !.flags = @ \cup {flag}]

(* The bytes of [start, end) *)
Spelling(source, start, end) == SubSeq(source, start + 1, end)

(* Lexer::reportError / diagMgr.report(id, loc, ...) *)
reportError(lx, id, loc) == [lx EXCEPT !.diags = Append(@, [id |-> id, loc |-> loc])]

(* Lexer::lexIdentifier *)
lexIdentifier(lx) ==
  LET start == lx.current
  IN With(ScanWhile(lx.source, start + 1, IdentifierBytes), LAMBDA ptr :
     With(makeIdentifierToken(Spelling(lx.source, start, ptr)), LAMBDA made :
       [lx |-> [lx EXCEPT !.current = ptr],
        token |-> [made @@ [loc |-> getLocationAt(lx, start)]
                     EXCEPT !.length = ptr - start]]))

(* Lexer::lexNumber *)
lexNumber(lx) ==
  LET source == lx.source
      end == Len(source)
      start == lx.current
      digits == DigitFastBytes
      \* past the integer part
      integerPart ==
        IF ByteAt(source, start) = 48 /\ start + 1 < end
          THEN LET next == ByteAt(source, start + 1)
               IN IF next = 120 \/ next = 88
                    THEN ScanWhile(source, start + 2, HexDigitFastBytes)
                  ELSE IF next = 98 \/ next = 66
                    THEN ScanWhile(source, start + 2, {48, 49})
                  ELSE ScanWhile(source, start + 1, OctalDigits)
          ELSE ScanWhile(source, start, digits)
  IN With(integerPart, LAMBDA p1 :
     With(/\ p1 < end /\ ByteAt(source, p1) = 46
          /\ p1 + 1 < end /\ isDigitFast(ByteAt(source, p1 + 1)), LAMBDA isFloat :
     With(IF isFloat THEN ScanWhile(source, p1 + 1, digits) ELSE p1, LAMBDA p2 :
     With(IF isFloat /\ p2 < end /\ ByteAt(source, p2) \in {101, 69}
            THEN ScanWhile(source,
                           IF p2 + 1 < end /\ ByteAt(source, p2 + 1) \in {43, 45}
                             THEN p2 + 2 ELSE p2 + 1,
                           digits)
            ELSE p2, LAMBDA p3 :
     With(ScanWhile(source, p3, AlphaFastBytes), LAMBDA p4 :
     With([lx EXCEPT !.current = p4], LAMBDA l :
       [lx |-> l,
        token |-> setText(makeToken(l, IF isFloat THEN "Float" ELSE "Integer", start, p4),
                          Spelling(source, start, p4))]))))))

(* The scanning loop of Lexer::lexString: where ptr stops, and whether an  *)
(* escape was seen.                                                        *)
RECURSIVE StringLoop(_, _, _, _)
StringLoop(source, ptr, quote, hasEscapes) ==
  IF ptr < Len(source) /\ ByteAt(source, ptr) # quote
    THEN IF ByteAt(source, ptr) = 92
           THEN IF ptr + 1 >= Len(source)
                  THEN [ptr |-> ptr + 1, hasEscapes |-> TRUE]
                  ELSE LET escaped == ByteAt(source, ptr + 1)
                           after ==
                             IF escaped = 120 THEN ScanUpTo(source, ptr + 2, HexDigits, 2)
                             ELSE IF escaped = 117 THEN ScanUpTo(source, ptr + 2, HexDigits, 4)
                             ELSE IF escaped = 85 THEN ScanUpTo(source, ptr + 2, HexDigits, 8)
                             ELSE IF escaped >= 48 /\ escaped <= 55
                               THEN ScanUpTo(source, ptr + 2, OctalDigits, 2)
                             ELSE ptr + 2
                       IN With(after, LAMBDA p : StringLoop(source, p, quote, TRUE))
         ELSE IF ByteAt(source, ptr) = LF \/ ByteAt(source, ptr) = CR
           THEN [ptr |-> ptr, hasEscapes |-> hasEscapes]
         ELSE StringLoop(source, ptr + 1, quote, hasEscapes)
    ELSE [ptr |-> ptr, hasEscapes |-> hasEscapes]

(* Lexer::lexString *)
lexString(lx, quote) ==
  LET start == lx.current
  IN With(StringLoop(lx.source, start + 1, quote, FALSE), LAMBDA scan :
     With(IF scan.ptr >= Len(lx.source)
            THEN [reportError(lx, "UnterminatedStringLiteralError",
                              getLocationAt(lx, start))
                    EXCEPT !.current = scan.ptr]
            ELSE [lx EXCEPT !.current = scan.ptr + 1], LAMBDA l :
     With(makeToken(l, "String", start, l.current), LAMBDA token :
       [lx |-> l,
        token |-> setText(IF scan.hasEscapes THEN addFlag(token, "NeedsCleaning")
                          ELSE token,
                          Spelling(lx.source, start, l.current))])))

(* Lexer::lexCharLiteral *)
lexCharLiteral(lx) ==
  LET source == lx.source
      end == Len(source)
      start == lx.current
      p0 == start + 1
      inside == p0 < end /\ ByteAt(source, p0) # 39
      hasEscape == inside /\ ByteAt(source, p0) = 92
      \* past the character or the escape sequence
      character ==
        IF ~inside THEN p0
        ELSE IF ~hasEscape THEN p0 + 1
        ELSE IF p0 + 1 >= end THEN p0 + 1
        ELSE LET escaped == ByteAt(source, p0 + 1)
             IN IF escaped = 120 THEN ScanUpTo(source, p0 + 2, HexDigits, 2)
                ELSE IF escaped = 117 THEN ScanUpTo(source, p0 + 2, HexDigits, 4)
                ELSE IF escaped = 85 THEN ScanUpTo(source, p0 + 2, HexDigits, 8)
                ELSE IF escaped >= 48 /\ escaped <= 55
                  THEN ScanUpTo(source, p0 + 2, OctalDigits, 2)
                ELSE p0 + 2
  IN With(character, LAMBDA p1 :
     With(IF p1 < end /\ ByteAt(source, p1) = 39
            THEN [lx EXCEPT !.current = p1 + 1]
            ELSE [reportError(lx, "UnterminatedCharacterLiteralError",
                              getLocationAt(lx, start))
                    EXCEPT !.current = p1], LAMBDA l :
     With(makeToken(l, "Character", start, l.current), LAMBDA token :
       [lx |-> l,
        token |-> setText(IF hasEscape THEN addFlag(token, "NeedsCleaning") ELSE token,
                          Spelling(source, start, l.current))])))

(* Lexer::lexComment *)
lexComment(lx) ==
  LET source == lx.source
      start == lx.current
      two == start + 1 < Len(source) /\ ByteAt(source, start) = 47
  IN IF two /\ ByteAt(source, start + 1) = 47
       THEN With(skipLineComment(lx), LAMBDA l :
              [lx |-> l, token |-> makeToken(l, "LineComment", start, l.current)])
     ELSE IF two /\ ByteAt(source, start + 1) = 42
       THEN With(BlockCommentLoop(lx, start + 2), LAMBDA l :
              [lx |-> l, token |-> makeToken(l, "BlockComment", start, l.current)])
     ELSE [lx |-> lx, token |-> makeTokenHere(lx, "Unknown")]

TwoCharTokens_NoArrow ==
  (<<43, 61>> :> "PlusEqual") @@ (<<43, 43>> :> "PlusPlus") @@
  (<<45, 61>> :> "MinusEqual") @@ (<<45, 45>> :> "MinusMinus") @@
  (<<42, 61>> :> "StarEqual") @@
  (<<47, 61>> :> "SlashEqual") @@ (<<37, 61>> :> "PercentEqual") @@
  (<<61, 61>> :> "EqualEqual") @@ (<<33, 61>> :> "NotEqual") @@
  (<<60, 61>> :> "LessEqual") @@ (<<60, 60>> :> "LesserLesser") @@
  (<<62, 61>> :> "GreaterEqual") @@ (<<62, 62>> :> "GreaterGreater") @@
  (<<38, 38>> :> "AmpAmp") @@ (<<124, 124>> :> "PipePipe") @@
  (<<58, 58>> :> "ColonColon")

(* The two-character operators of Lexer::lexOperator's switch on the pair *)
TwoCharTokens ==
  (<<43, 61>> :> "PlusEqual") @@ (<<43, 43>> :> "PlusPlus") @@
  (<<45, 61>> :> "MinusEqual") @@ (<<45, 45>> :> "MinusMinus") @@
  (<<45, 62>> :> "Arrow") @@ (<<42, 61>> :> "StarEqual") @@
  (<<47, 61>> :> "SlashEqual") @@ (<<37, 61>> :> "PercentEqual") @@
  (<<61, 61>> :> "EqualEqual") @@ (<<33, 61>> :> "NotEqual") @@
  (<<60, 61>> :> "LessEqual") @@ (<<60, 60>> :> "LesserLesser") @@
  (<<62, 61>> :> "GreaterEqual") @@ (<<62, 62>> :> "GreaterGreater") @@
  (<<38, 38>> :> "AmpAmp") @@ (<<124, 124>> :> "PipePipe") @@
  (<<58, 58>> :> "ColonColon")

(* SINGLE_CHAR_TOKENS: filled with Unknown, then the 27 assignments *)
SINGLE_CHAR_TOKENS ==
  ((43 :> "Plus") @@ (45 :> "Minus") @@ (42 :> "Star") @@ (47 :> "Slash") @@
   (37 :> "Percent") @@ (61 :> "Equal") @@ (33 :> "Exclaim") @@ (60 :> "Less") @@
   (62 :> "Greater") @@ (38 :> "Amp") @@ (124 :> "Pipe") @@ (94 :> "Caret") @@
   (126 :> "Tilde") @@ (40 :> "LeftParen") @@ (41 :> "RightParen") @@
   (123 :> "LeftBrace") @@ (125 :> "RightBrace") @@ (91 :> "LeftBracket") @@
   (93 :> "RightBracket") @@ (59 :> "Semicolon") @@ (44 :> "Comma") @@
   (46 :> "Dot") @@ (58 :> "Colon") @@ (63 :> "Question") @@ (64 :> "At") @@
   (35 :> "Hash") @@ (92 :> "Backslash"))
  @@ [c \in 0..127 |-> "Unknown"]

SingleCharSwitch_Punctuation(c) ==
  IF c \in {40, 41, 123, 125, 91, 93, 59, 44, 46, 58, 63, 64, 35, 92}
    THEN SINGLE_CHAR_TOKENS[c] ELSE "Unknown"

(* The switch lexOperator uses when enableLookupTables is off *)
SingleCharSwitch(c) ==
  CASE c = 40 -> "LeftParen" [] c = 41 -> "RightParen"
    [] c = 123 -> "LeftBrace" [] c = 125 -> "RightBrace"
    [] c = 91 -> "LeftBracket" [] c = 93 -> "RightBracket"
    [] c = 59 -> "Semicolon" [] c = 44 -> "Comma" [] c = 46 -> "Dot"
    [] c = 58 -> "Colon" [] c = 63 -> "Question" [] c = 64 -> "At"
    [] c = 35 -> "Hash" [] c = 92 -> "Backslash" [] c = 43 -> "Plus"
    [] c = 45 -> "Minus" [] c = 42 -> "Star" [] c = 47 -> "Slash"
    [] c = 37 -> "Percent" [] c = 61 -> "Equal" [] c = 33 -> "Exclaim"
    [] c = 60 -> "Less" [] c = 62 -> "Greater" [] c = 38 -> "Amp"
    [] c = 124 -> "Pipe" [] c = 94 -> "Caret" [] c = 126 -> "Tilde"
    [] OTHER -> "Unknown"

(* std::to_string of a non-negative int: its decimal digits, as bytes *)
RECURSIVE to_string(_)
to_string(n) == IF n < 10 THEN <<48 + n>> ELSE Append(to_string(n \div 10), 48 + (n % 10))

UnexpectedValueArgs_Printable(c) ==
  [expected |-> "valid character", actual |-> [text |-> "", bytes |-> <<c>>]]

(* The arguments lexOperator reports UnexpectedValueError with for the     *)
(* byte c: what was expected, and the character itself or its code.        *)
UnexpectedValueArgs(c) ==
  IF c < 32 \/ c >= 127
    THEN [expected |-> "valid character (non-printable character)",
          actual |-> [text |-> "character code: ", bytes |-> to_string(c)]]
    ELSE [expected |-> "valid character", actual |-> [text |-> "", bytes |-> <<c>>]]

(* diagMgr.report(id, loc, expected, actual) *)
reportValue(lx, id, loc, args) ==
  [lx EXCEPT !.diags = Append(@, [id |-> id, loc |-> loc] @@ args)]

(* Lexer::lexOperator *)
lexOperator(lx) ==
  LET source == lx.source
      start == lx.current
      c == ByteAt(source, start)
      l1 == [lx EXCEPT !.current = start + 1]
      pair == IF start + 1 < Len(source) THEN <<c, ByteAt(source, start + 1)>> ELSE <<>>
      kind == IF c < 128
                THEN IF lx.options.enableLookupTables
                       THEN SINGLE_CHAR_TOKENS[c] ELSE SingleCharSwitch(c)
                ELSE "Unknown"
  IN IF pair \in DOMAIN TwoCharTokens
       THEN With([lx EXCEPT !.current = start + 2], LAMBDA l2 :
              [lx |-> l2, token |-> makeTokenBack(l2, TwoCharTokens[pair], 2)])
     ELSE IF kind # "Unknown"
       THEN With(l1, LAMBDA l : [lx |-> l, token |-> makeTokenBack(l, kind, 1)])
     ELSE With(reportValue(l1, "UnexpectedValueError", getLocationAt(lx, start),
                           UnexpectedValueArgs(c)),
               LAMBDA l2 : [lx |-> l2, token |-> makeTokenBack(l2, "Unknown", 1)])

(* Lexer::nextToken past the peeked-token test: skip the trivia that is    *)
(* not retained, then dispatch on the byte at current.  Returns the lexer  *)
(* after the call and the token, with currentLine as it was when the token *)
(* started.                                                                *)
RECURSIVE scanToken(_)
scanToken(lx0) ==
  With(IF ~lx0.options.retainWhitespace /\ ~lx0.options.retainComments
         THEN skipTrivialOptimized(lx0) ELSE lx0, LAMBDA lx :
    IF lx.current >= Len(lx.source)
      THEN [lx |-> lx, token |-> makeTokenHere(lx, "EndOfFile"),
            startLine |-> lx.currentLine]
    ELSE
      LET o == lx.options
          source == lx.source
          startPos == lx.current
          atStartOfLine == lx.current = lx.lineStart
          c == ByteAt(source, lx.current)
          isComment == c = 47 /\ peek(lx, 1) \in {47, 42}
          isCommentFast == /\ c = 47 /\ lx.current + 1 < Len(source)
                           /\ ByteAt(source, lx.current + 1) \in {47, 42}
          ws == With(skipWhitespace(lx), LAMBDA l :
                  [lx |-> l, token |-> makeToken(l, "Whitespace", startPos, l.current)])
          nl == With(handleNewline(lx), LAMBDA l :
                  [lx |-> l, token |-> makeToken(l, "Newline", startPos, l.current)])
          quoted == IF c = 34 THEN lexString(lx, 34) ELSE lexCharLiteral(lx)
          skipped == IF peek(lx, 1) = 47 THEN skipLineComment(lx) ELSE skipBlockComment(lx)
          \* "again" marks the branches that end in: return nextToken();
          again(l) == [lx |-> l, token |-> NoToken]
          dispatched ==
            IF o.enableFastPath
              THEN IF (IF o.enableLookupTables THEN isAlphaFast(c) ELSE isAlpha(o, c))
                      \/ c = 95
                     THEN lexIdentifier(lx)
                   ELSE IF (IF o.enableLookupTables THEN isDigitFast(c) ELSE isDigit(o, c))
                     THEN lexNumber(lx)
                   ELSE IF (IF o.enableLookupTables THEN isWhitespaceFast(c)
                            ELSE isWhitespace(o, c))
                     THEN IF o.retainWhitespace THEN ws ELSE again(skipWhitespace(lx))
                   ELSE IF isNewlineFast(c)
                     THEN IF o.retainWhitespace THEN nl ELSE again(handleNewline(lx))
                   ELSE IF c = 34 \/ c = 39 THEN quoted
                   ELSE IF isCommentFast
                     THEN IF o.retainComments THEN lexComment(lx) ELSE again(skipped)
                   ELSE lexOperator(lx)
              ELSE IF isWhitespace(o, c)
                     THEN IF o.retainWhitespace THEN ws ELSE again(skipWhitespace(lx))
                   ELSE IF isNewline(o, c)
                     THEN IF o.retainWhitespace THEN nl ELSE again(handleNewline(lx))
                   ELSE IF isAlpha(o, c) \/ c = 95 THEN lexIdentifier(lx)
                   ELSE IF isDigit(o, c) THEN lexNumber(lx)
                   ELSE IF c = 34 \/ c = 39 THEN quoted
                   ELSE IF isComment
                     THEN IF o.retainComments THEN lexComment(lx) ELSE again(skipped)
                   ELSE lexOperator(lx)
      IN With(dispatched, LAMBDA r :
           IF r.token = NoToken THEN scanToken(r.lx)
           ELSE [lx |-> IF r.lx.current = startPos /\ r.lx.current < Len(source)
                          THEN [r.lx EXCEPT !.current = @ + 1] ELSE r.lx,
                 token |-> IF atStartOfLine THEN addFlag(r.token, "AtStartOfLine")
                           ELSE r.token,
                 startLine |-> lx.currentLine]))

nextToken_Rescans(lx, has, peeked) ==
  With(scanToken(lx), LAMBDA s :
    [lx |-> s.lx, has |-> FALSE, peeked |-> NoToken, token |-> s.token])

(* Lexer::nextToken on [lx, hasPeekedToken, peekedToken]: the buffered     *)
(* token when there is one, else a scan.                                   *)
nextToken(lx, has, peeked) ==
  IF has THEN [lx |-> lx, has |-> FALSE, peeked |-> NoToken, token |-> peeked]
  ELSE With(scanToken(lx), LAMBDA s :
         [lx |-> s.lx, has |-> has, peeked |-> peeked, token |-> s.token])

(* Lexer::peekToken *)
peekToken(lx, has, peeked) ==
  IF ~has
    THEN With(nextToken(lx, has, peeked), LAMBDA n :
           [lx |-> n.lx, has |-> TRUE, peeked |-> n.token, token |-> n.token])
    ELSE [lx |-> lx, has |-> has, peeked |-> peeked, token |-> peeked]

(* The option sets a lexer can be constructed with: the two retain options *)
(* and the four implementation-choice flags.                               *)
LexerOptions ==
  [retainComments : BOOLEAN, retainWhitespace : BOOLEAN,
   enableFastPath : BOOLEAN, enableLookupTables : BOOLEAN,
   enablePrefetching : BOOLEAN, enableSimdOptimizations : BOOLEAN]

(* The member initialisers of struct LexerOptions *)
DefaultOptions ==
  [retainComments |-> FALSE, retainWhitespace |-> FALSE,
   enableFastPath |-> TRUE, enableLookupTables |-> TRUE,
   enablePrefetching |-> TRUE, enableSimdOptimizations |-> FALSE]

MaxSourceLen == 2
MaxEndOfFile == 2

(* The files lexed: every byte sequence up to MaxSourceLen over quote,     *)
(* letter a, LF, CR, space and slash, and longer samples: strings          *)
(* (unterminated, with raw line ends, with escapes), comments, character   *)
(* literals, numbers, operators, keywords, line ends, bytes that start no  *)
(* token, and runs of spaces as long as a SIMD chunk.                      *)
ShortSources == UNION {[1..n -> {34, 97, LF, CR, 32, 47}] : n \in 0..MaxSourceLen}

SampleSources ==
  {<<34, 104, 101, 108, 108, 111>>,
   <<34, 97, 10, 98, 34>>,
   <<34, 97, 13, 10, 98>>,
   <<34, 97, 13, 98, 34>>,
   <<34, 13>>,
   <<13, 10, 13>>,
   <<47, 42, 42, 47>>,
   <<47, 42>>,
   <<47, 42, 47>>,
   <<42, 47>>,
   <<92>>,
   <<34, 92>>,
   <<34, 92, 34>>,
   <<34, 97, 92, 34>>,
   <<34, 92, 120, 52, 49, 34, 122>>,
   <<47, 42, 97, 42, 47, 98>>,
   <<47, 42, 97>>,
   <<47, 42, 10, 42, 47, 97>>,
   <<47, 47, 97, 10, 98>>,
   <<39, 97, 39>>,
   <<39, 97, 98, 39>>,
   <<39, 92, 110, 39>>,
   <<48, 120, 49, 70>>,
   <<49, 46, 53, 101, 51>>,
   <<48, 49, 50>>,
   <<49, 46, 97>>,
   <<97, 32, 61, 61, 32, 98>>,
   <<97, 45, 62, 98>>,
   <<102, 110, 32, 102>>,
   <<105, 102, 32, 120>>,
   <<95, 97, 49>>,
   <<97, 13, 10, 98>>,
   <<200>>,
   <<127>>,
   <<0>>,
   <<36>>,
   <<32, 32, 32, 32, 32, 32, 32, 32, 32, 32, 32, 32, 32, 32, 32, 32, 97>>,
   <<32, 32, 32, 97, 32, 32, 32, 32, 32, 32, 32, 32, 32, 32, 32, 32>>,
   <<47, 42, 10>>, <<47, 42, 97, 13, 10>>, <<97, 32, 47, 42, 98, 42>>,
   <<96, 200>>, <<127, 97>>, <<32, 7, 36, 10, 255>>,
   <<61, 61, 61>>, <<60, 60, 61>>, <<45, 62, 62>>, <<43, 43, 43>>, <<47, 61, 47>>}

Sources == ShortSources \cup SampleSources

(* The loop of tokenizeFile: nextToken until it returns EndOfFile; the     *)
(* tokens pushed and the reports made.                                     *)
RECURSIVE TokenizeLoop(_, _)
TokenizeLoop(lx, tokens) ==
  With(scanToken(lx), LAMBDA n :
    IF n.token.kind = "EndOfFile"
      THEN [tokens |-> Append(tokens, n.token), diags |-> n.lx.diags]
      ELSE TokenizeLoop(n.lx, Append(tokens, n.token)))

(* tokenizeFile(srcMgr, fileID, interner, diagMgr, opts) *)
tokenizeFile(source, opts) ==
  TokenizeLoop([source |-> source, options |-> opts, current |-> 0,
                lineStart |-> 0, currentLine |-> 1, diags |-> <<>>], <<>>)

(* The lexer object *)
LX ==
  [source |-> lxSource, options |-> lxOptions, current |-> lxCurrent,
   lineStart |-> lxLineStart, currentLine |-> lxCurrentLine, diags |-> lxDiags]

(* Lexer::Lexer(srcMgr, fileID, interner, diagMgr, opts) *)
Constructed(source, opts) ==
  /\ lxSource' = source
  /\ lxOptions' = opts
  /\ lxCurrent' = 0
  /\ lxLineStart' = 0
  /\ lxCurrentLine' = 1
  /\ hasPeekedToken' = FALSE
  /\ peekedToken' = NoToken
  /\ lxDiags' = <<>>
  /\ lxReturned' = <<>>
  /\ lxCall' = [op |-> "new", token |-> NoToken, scanned |-> FALSE]

(* No lexer is constructed yet; the members hold what a lexer over an      *)
(* empty file would.                                                       *)
LXInit ==
  /\ lxSource = <<>>
  /\ lxOptions = DefaultOptions
  /\ lxCurrent = 0
  /\ lxLineStart = 0
  /\ lxCurrentLine = 1
  /\ hasPeekedToken = FALSE
  /\ peekedToken = NoToken
  /\ lxDiags = <<>>
  /\ lxReturned = <<>>
  /\ lxCall = [op |-> "none", token |-> NoToken, scanned |-> FALSE]

(* The model follows one lexer from its construction *)
NewLexerOver(source, opts) ==
  /\ lxCall.op = "none"
  /\ Constructed(source, opts)
  /\ UNCHANGED notLX

SetLX(r) ==
  /\ lxCurrent' = r.lx.current
  /\ lxLineStart' = r.lx.lineStart
  /\ lxCurrentLine' = r.lx.currentLine
  /\ lxDiags' = r.lx.diags
  /\ hasPeekedToken' = r.has
  /\ peekedToken' = r.peeked

EndOfFileCount == Cardinality({i \in DOMAIN lxReturned : lxReturned[i].kind = "EndOfFile"})

(* token = lexer.nextToken() *)
NextToken ==
  /\ lxCall.op # "none"
  /\ EndOfFileCount < MaxEndOfFile
  /\ \E r \in {nextToken(LX, hasPeekedToken, peekedToken)} :
        /\ SetLX(r)
        /\ lxReturned' = Append(lxReturned, r.token)
        /\ lxCall' = [op |-> "next", token |-> r.token, scanned |-> ~hasPeekedToken]
  /\ UNCHANGED <<lxSource, lxOptions, notLX>>

(* lexer.peekToken() *)
PeekToken ==
  /\ lxCall.op # "none"
  /\ \E r \in {peekToken(LX, hasPeekedToken, peekedToken)} :
        /\ SetLX(r)
        /\ lxCall' = [op |-> "peek", token |-> r.token, scanned |-> ~hasPeekedToken]
  /\ UNCHANGED <<lxSource, lxOptions, lxReturned, notLX>>

LXNext ==
  \/ /\ lxCall.op = "none"
     /\ \E source \in Sources, opts \in LexerOptions : NewLexerOver(source, opts)
  \/ NextToken
  \/ PeekToken

---------------------------------------------------------------------------
(* SourceManager: the line index of one loaded file.  The queries are      *)
(* followed from computeLineOffsets on; offsets are file offsets.          *)

LNThreads == {"q1", "q2"}

MaxLineFileLen == 3

MaxComputations == 2

(* The bytes per pass of the scanning loop: AVX2, SSE2, unrolled scalar *)
ChunkWidths == {32, 16, 8}

LongFile(n, newlines) == [i \in 1..n |-> IF i \in newlines THEN LF ELSE 120]

(* The contents a file is loaded with: every file of up to MaxLineFileLen  *)
(* bytes over LF, CR and a letter, and files long enough for the chunked   *)
(* passes, with line ends at, before and after the chunk boundaries.       *)
LineFiles ==
  UNION {[1..n -> {LF, CR, 120}] : n \in 0..MaxLineFileLen}
    \cup {LongFile(8, {8}), LongFile(9, {1, 8, 9}), LongFile(16, {}),
          LongFile(17, {16, 17}), LongFile(24, {7, 9, 24}),
          LongFile(33, {1, 16, 32, 33}), LongFile(35, {1, 32, 34}), LongFile(40, {8, 9, 32, 40}),
          LongFile(64, {32, 33, 64})}

NoInfo == [data |-> <<>>, lineOffsets |-> <<>>, lineOffsetsComputed |-> FALSE]

LNIdle == [pc |-> "idle", offset |-> 0, i |-> 0]

LNCall(op, offset, line, column) ==
  [op |-> op, offset |-> offset, line |-> line, column |-> column]

(* One pass of a chunked loop of computeLineOffsets over the bytes         *)
(* data[i .. i + width - 1]: the offset after each LF, lowest bit first.   *)
RECURSIVE ChunkNewlines(_, _, _, _, _)
ChunkNewlines(data, i, bit, width, acc) ==
  IF bit >= width THEN acc
  ELSE ChunkNewlines(data, i, bit + 1, width,
                     IF data[i + bit + 1] = LF THEN Append(acc, i + bit + 1) ELSE acc)

(* One iteration of the loops of computeLineOffsets at index i *)
ScanIteration(data, i, width, acc) ==
  IF i + width <= Len(data)
    THEN [i |-> i + width, lineOffsets |-> ChunkNewlines(data, i, 0, width, acc)]
    ELSE [i |-> i + 1,
          lineOffsets |-> IF data[i + 1] = LF THEN Append(acc, i + 1) ELSE acc]

(* The loops of computeLineOffsets: chunks while a whole chunk remains,    *)
(* then byte by byte.                                                      *)
RECURSIVE ScanChunks(_, _, _, _)
ScanChunks(data, i, width, acc) ==
  IF i + width <= Len(data)
    THEN ScanChunks(data, i + width, width, ChunkNewlines(data, i, 0, width, acc))
    ELSE ScanNewlines(data, i, acc)

(* SourceManager::computeLineOffsets on the FileInfo, as one call: the     *)
(* FileInfo and the counter after it.                                      *)
computeLineOffsetsOf(info, width, count) ==
  IF info.lineOffsetsComputed THEN [info |-> info, count |-> count]
  ELSE [info |-> [info EXCEPT !.lineOffsets = ScanChunks(info.data, 0, width, <<0>>),
                              !.lineOffsetsComputed = TRUE],
        count |-> count + 1]

(* SourceManager::getLineAndColumn from findLineNumber on *)
LineAndColumnAt(lineOffsets, offset) ==
  LET line == findLineNumber(lineOffsets, offset)
  IN IF line = 0 \/ line > Len(lineOffsets) THEN [line |-> 0, column |-> 0]
     ELSE [line |-> line, column |-> offset - lineOffsets[line] + 1]

LNInit ==
  /\ lnInfo = NoInfo
  /\ lnBuild = 8
  /\ lineComputationCount = 0
  /\ lnSinceClear = 0
  /\ lnThr = [t \in LNThreads |-> LNIdle]
  /\ lnCall = LNCall("none", 0, 0, 0)

(* The file is loaded (createFileID): the FileInfo starts without index *)
LNLoad(data, width) ==
  /\ lnCall.op = "none"
  /\ lnInfo' = [NoInfo EXCEPT !.data = data]
  /\ lnBuild' = width
  /\ lnCall' = LNCall("load", 0, 0, 0)
  /\ UNCHANGED <<lineComputationCount, lnSinceClear, lnThr, notLN>>

(* SourceManager::getLineAndColumn by one thread, as one call *)
LNGetLineAndColumn(offset) ==
  /\ lnCall.op # "none"
  /\ \A t \in LNThreads : lnThr[t].pc = "idle"
  /\ \E c \in {computeLineOffsetsOf(lnInfo, lnBuild, lineComputationCount)} :
       /\ lnInfo' = c.info
       /\ lineComputationCount' = c.count
       /\ lnSinceClear' = lnSinceClear + (c.count - lineComputationCount)
       /\ \E r \in {LineAndColumnAt(c.info.lineOffsets, offset)} :
            lnCall' = LNCall("getLineAndColumn", offset, r.line, r.column)
  /\ UNCHANGED <<lnBuild, lnThr, notLN>>

(* SourceManager::clearCache, for the one file: under stateMutex, which no *)
(* query takes.                                                            *)
LNClearCache ==
  /\ lnCall.op # "none"
  /\ lineComputationCount < MaxComputations
  /\ lnInfo' = [lnInfo EXCEPT !.lineOffsets = <<>>, !.lineOffsetsComputed = FALSE]
  /\ lnSinceClear' = 0
  /\ lnCall' = LNCall("clearCache", 0, 0, 0)
  /\ UNCHANGED <<lnBuild, lineComputationCount, lnThr, notLN>>

(* The same by a thread while no query is running *)
LNClearCacheQuiet ==
  /\ \A t \in LNThreads : lnThr[t].pc = "idle"
  /\ LNClearCache

LN1Next ==
  \/ \E data \in LineFiles, width \in ChunkWidths : LNLoad(data, width)
  \/ \E offset \in 0..Len(lnInfo.data) : LNGetLineAndColumn(offset)
  \/ LNClearCacheQuiet

(* The same query step by step, by threads running concurrently.  A thread *)
(* is "inside" computeLineOffsets from the increment of the counter to the *)
(* store of lineOffsetsComputed.                                           *)
Computing(t) == lnThr[t].pc \in {"count", "clear", "scan", "publish"}

(* What an unsynchronised write of lineOffsets leaves: the written value,  *)
(* or, when another thread is writing the vector too, also the old one.    *)
RacingWrite(t, written) ==
  IF \E u \in LNThreads \ {t} : lnThr[u].pc \in {"clear", "scan"}
    THEN {written, lnInfo.lineOffsets}
    ELSE {written}

(* getLineAndColumn is entered; computeLineOffsets is called *)
LNEnter(t, offset) ==
  /\ lnCall.op # "none"
  /\ lnThr[t].pc = "idle"
  /\ lnThr' = [lnThr EXCEPT ![t] = [pc |-> "check", offset |-> offset, i |-> 0]]
  /\ UNCHANGED <<lnInfo, lnBuild, lineComputationCount, lnSinceClear, lnCall, notLN>>

(* if (info.lineOffsetsComputed) return; *)
LNCheck(t) ==
  /\ lnThr[t].pc = "check"
  /\ lnThr' = [lnThr EXCEPT ![t].pc = IF lnInfo.lineOffsetsComputed THEN "find" ELSE "count"]
  /\ UNCHANGED <<lnInfo, lnBuild, lineComputationCount, lnSinceClear, lnCall, notLN>>

(* ++stats.lineComputationCount *)
LNCount(t) ==
  /\ lnThr[t].pc = "count"
  /\ lineComputationCount' = lineComputationCount + 1
  /\ lnSinceClear' = lnSinceClear + 1
  /\ lnThr' = [lnThr EXCEPT ![t].pc = "clear"]
  /\ UNCHANGED <<lnInfo, lnBuild, lnCall, notLN>>

(* lineOffsets.clear(); reserve; push_back(0) *)
LNClear(t) ==
  /\ lnThr[t].pc = "clear"
  /\ \E v \in RacingWrite(t, <<0>>) : lnInfo' = [lnInfo EXCEPT !.lineOffsets = v]
  /\ lnThr' = [lnThr EXCEPT ![t].pc = "scan", ![t].i = 0]
  /\ UNCHANGED <<lnBuild, lineComputationCount, lnSinceClear, lnCall, notLN>>

(* One iteration of the scanning loops, or their exit *)
LNScan(t) ==
  /\ lnThr[t].pc = "scan"
  /\ IF lnThr[t].i < Len(lnInfo.data)
       THEN \E s \in {ScanIteration(lnInfo.data, lnThr[t].i, lnBuild, lnInfo.lineOffsets)} :
              /\ \E v \in RacingWrite(t, s.lineOffsets) :
                   lnInfo' = [lnInfo EXCEPT !.lineOffsets = v]
              /\ lnThr' = [lnThr EXCEPT ![t].i = s.i]
       ELSE /\ lnThr' = [lnThr EXCEPT ![t].pc = "publish"]
            /\ UNCHANGED lnInfo
  /\ UNCHANGED <<lnBuild, lineComputationCount, lnSinceClear, lnCall, notLN>>

(* info.lineOffsetsComputed = true *)
LNPublish(t) ==
  /\ lnThr[t].pc = "publish"
  /\ lnInfo' = [lnInfo EXCEPT !.lineOffsetsComputed = TRUE]
  /\ lnThr' = [lnThr EXCEPT ![t].pc = "find"]
  /\ UNCHANGED <<lnBuild, lineComputationCount, lnSinceClear, lnCall, notLN>>

(* findLineNumber(info.lineOffsets, offset) and the column; the call ends *)
LNFind(t) ==
  /\ lnThr[t].pc = "find"
  /\ \E r \in {LineAndColumnAt(lnInfo.lineOffsets, lnThr[t].offset)} :
       lnCall' = LNCall("getLineAndColumn", lnThr[t].offset, r.line, r.column)
  /\ lnThr' = [lnThr EXCEPT ![t] = LNIdle]
  /\ UNCHANGED <<lnInfo, lnBuild, lineComputationCount, lnSinceClear, notLN>>

(* The loads of the concurrent runs: the files of up to two bytes under   *)
(* every build, and one file with a chunked pass.                          *)
RacedLoads ==
  ((UNION {[1..n -> {LF, 120}] : n \in 0..2}) \X ChunkWidths)
    \cup {<<LongFile(8, {8}), 8>>, <<LongFile(9, {1, 9}), 8>>}

LNNext ==
  \/ \E load \in RacedLoads : LNLoad(load[1], load[2])
  \/ \E t \in LNThreads, offset \in {0, Len(lnInfo.data)} : LNEnter(t, offset)
  \/ \E t \in LNThreads : LNCheck(t)
  \/ \E t \in LNThreads : LNCount(t)
  \/ \E t \in LNThreads : LNClear(t)
  \/ \E t \in LNThreads : LNScan(t)
  \/ \E t \in LNThreads : LNPublish(t)
  \/ \E t \in LNThreads : LNFind(t)
  \/ LNClearCache

---------------------------------------------------------------------------
(* ArenaAllocator.  Sizes and addresses are the program's own numbers.     *)

kDefaultChunkSize == 1048576

(* alignof(std::max_align_t) of the x86-64 builds *)
kDefaultAlignment == 16

kMaxAllocationSize == 524288

MinChunkSize == 1024

ChunkSizeLimit == 104857600

(* The distance between the blocks the heap hands out: above every chunk   *)
(* size.                                                                   *)
HeapStride == 268435456

MaxAllocs == 2

Max(a, b) == IF a > b THEN a ELSE b

NoArenaStats ==
  [allocatedCount |-> 0, requestedCount |-> 0, allocationCount |-> 0,
   chunkCount |-> 0, peakUsage |-> 0, currentUsage |-> 0, wastedByteCount |-> 0]

(* The arena as a value: what the member functions read and write *)
Arena == [Chunks |-> Chunks, chunkSize |-> chunkSize, stats |-> arenaStats]

(* The addresses std::make_unique<char[]> can return for the next chunk:   *)
(* the first block of the heap no chunk lives in, at any of its 16-byte    *)
(* aligned starts.                                                         *)
FreshMemory(chunks) ==
  LET taken == {chunks[k].memory \div HeapStride : k \in 1..Len(chunks)}
      block == CHOOSE b \in 1..(MaxAllocs + 2) :
                 b \notin taken /\ \A c \in 1..(b - 1) : c \in taken
  IN {block * HeapStride + pad : pad \in {0, 16, 48}}

(* (addr + alignment - 1) & ~(alignment - 1): for a power of two the mask  *)
(* clears addr + alignment - 1 down to a multiple of alignment.            *)
AlignUp(addr, alignment) ==
  (addr + alignment - 1) - ((addr + alignment - 1) % alignment)

ArenaChunk_allocate_NoAdvance(chunk, nbytes, alignment) ==
  LET ptr == chunk.memory + chunk.used
      alignedPtr == AlignUp(ptr, alignment)
      totalSize == (alignedPtr - ptr) + nbytes
  IN IF totalSize > chunk.size - chunk.used THEN [chunk |-> chunk, ptr |-> 0]
     ELSE [chunk |-> chunk, ptr |-> alignedPtr]

ArenaChunk_allocate_NoAlign(chunk, nbytes, alignment) ==
  IF nbytes > chunk.size - chunk.used THEN [chunk |-> chunk, ptr |-> 0]
  ELSE [chunk |-> [chunk EXCEPT !.used = @ + nbytes], ptr |-> chunk.memory + chunk.used]

(* ArenaChunk::allocate: the chunk after the call and the pointer (0 =     *)
(* nullptr).                                                               *)
ArenaChunk_allocate(chunk, nbytes, alignment) ==
  LET ptr == chunk.memory + chunk.used
      alignedPtr == AlignUp(ptr, alignment)
      totalSize == (alignedPtr - ptr) + nbytes
  IN IF totalSize > chunk.size - chunk.used THEN [chunk |-> chunk, ptr |-> 0]
     ELSE [chunk |-> [chunk EXCEPT !.used = @ + totalSize], ptr |-> alignedPtr]

(* ArenaAllocator::allocateNewChunk, the new block being at memory *)
allocateNewChunk(ar, minSize, memory) ==
  LET wanted == Max(minSize, ar.chunkSize)
      newChunkSize == IF wanted > ChunkSizeLimit THEN ChunkSizeLimit ELSE wanted
  IN [ar EXCEPT !.Chunks = Append(@, [memory |-> memory, size |-> newChunkSize, used |-> 0]),
                !.stats.chunkCount = @ + 1,
                !.stats.allocatedCount = @ + newChunkSize]

(* ArenaAllocator::updateStats *)
updateArenaStats(stats, requested, allocated) ==
  [stats EXCEPT !.allocationCount = @ + 1,
                !.requestedCount = @ + requested,
                !.wastedByteCount = IF allocated > requested
                                      THEN @ + (allocated - requested) ELSE @]

(* The allocation from the last chunk: the arena after it and the pointer *)
AllocateFromBack(ar, nbytes, alignment) ==
  LET last == Len(ar.Chunks)
      a == ArenaChunk_allocate(ar.Chunks[last], nbytes, alignment)
  IN IF a.ptr = 0 THEN [ar |-> ar, ptr |-> 0]
     ELSE [ar |-> [ar EXCEPT !.Chunks[last] = a.chunk,
                             !.stats = updateArenaStats(@, nbytes,
                                         a.chunk.used - ar.Chunks[last].used)],
           ptr |-> a.ptr]

(* ArenaAllocator::allocate(size, alignment); memory is where the heap     *)
(* puts a new chunk, if one is opened.                                     *)
allocate(ar, nbytes, requested, memory) ==
  IF nbytes = 0 \/ nbytes > kMaxAllocationSize THEN [ar |-> ar, ptr |-> 0]
  ELSE
    LET alignment == IF requested < kDefaultAlignment THEN kDefaultAlignment ELSE requested
        first == IF Len(ar.Chunks) = 0 THEN [ar |-> ar, ptr |-> 0]
                 ELSE AllocateFromBack(ar, nbytes, alignment)
    IN IF first.ptr # 0 THEN first
       ELSE AllocateFromBack(
              allocateNewChunk(ar, Max(nbytes + alignment - 1, ar.chunkSize), memory),
              nbytes, alignment)

(* ArenaAllocator::reset *)
reset(ar, memory) ==
  allocateNewChunk([ar EXCEPT !.Chunks = <<>>, !.stats = NoArenaStats], 0, memory)

clear_StatsOnly(ar) ==
  [ar EXCEPT !.stats.currentUsage = 0, !.stats.allocationCount = 0]

(* ArenaAllocator::clear *)
clear(ar) ==
  [ar EXCEPT !.Chunks = [k \in 1..Len(ar.Chunks) |-> [ar.Chunks[k] EXCEPT !.used = 0]],
             !.stats.currentUsage = 0,
             !.stats.allocationCount = 0]

RECURSIVE SumOver(_, _)
SumOver(chunks, field) ==
  IF chunks = <<>> THEN 0
  ELSE chunks[1][field] + SumOver(Tail(chunks), field)

(* ArenaAllocator::getTotalAllocated *)
getTotalAllocated(ar) == SumOver(ar.Chunks, "size")

(* ArenaAllocator::getTotalUsed *)
getTotalUsed(ar) == SumOver(ar.Chunks, "used")

ARCall(op, nbytes, alignment, ptr, before) ==
  [op |-> op, size |-> nbytes, alignment |-> alignment, ptr |-> ptr, before |-> before]

NoArena == [Chunks |-> <<>>, chunkSize |-> 0, stats |-> NoArenaStats]

ARInit ==
  /\ Chunks = <<>>
  /\ chunkSize = 0
  /\ arenaStats = NoArenaStats
  /\ arCall = ARCall("none", 0, 0, 0, NoArena)
  /\ arAllocs = 0
  /\ arRanges = <<>>

SetArena(ar) ==
  /\ Chunks' = ar.Chunks
  /\ chunkSize' = ar.chunkSize
  /\ arenaStats' = ar.stats

(* ArenaAllocator::ArenaAllocator(chunkSize) *)
ARConstruct(nbytes) ==
  /\ arCall.op = "none"
  /\ \E memory \in FreshMemory(<<>>) :
       SetArena(allocateNewChunk(
                  [NoArena EXCEPT !.chunkSize = IF nbytes < MinChunkSize
                                                  THEN MinChunkSize ELSE nbytes],
                  0, memory))
  /\ arCall' = ARCall("construct", nbytes, 0, 0, NoArena)
  /\ UNCHANGED <<arAllocs, arRanges, notAR>>

(* The ranges handed out, with the one a successful call returns *)
Returned(ptr, nbytes) ==
  IF ptr = 0 THEN arRanges ELSE Append(arRanges, [ptr |-> ptr, size |-> nbytes])

Allocate(nbytes, alignment) ==
  /\ arCall.op # "none"
  /\ arAllocs < MaxAllocs
  /\ \E memory \in FreshMemory(Chunks) :
       \E r \in {allocate(Arena, nbytes, alignment, memory)} :
         /\ SetArena(r.ar)
         /\ arCall' = ARCall("allocate", nbytes, alignment, r.ptr, Arena)
         /\ arRanges' = Returned(r.ptr, nbytes)
  /\ arAllocs' = arAllocs + 1
  /\ UNCHANGED notAR

(* ArenaAllocator::allocateString(str, length) for a non-null str: length  *)
(* + 1 bytes with alignment 1, filled with the string and a NUL.           *)
AllocateString(length) ==
  /\ arCall.op # "none"
  /\ arAllocs < MaxAllocs
  /\ \E memory \in FreshMemory(Chunks) :
       \E r \in {allocate(Arena, length + 1, 1, memory)} :
         /\ SetArena(r.ar)
         /\ arCall' = ARCall("allocateString", length + 1, 1, r.ptr, Arena)
         /\ arRanges' = Returned(r.ptr, length + 1)
  /\ arAllocs' = arAllocs + 1
  /\ UNCHANGED notAR

ArenaReset ==
  /\ arCall.op # "none"
  /\ \E memory \in FreshMemory(<<>>) : SetArena(reset(Arena, memory))
  /\ arCall' = ARCall("reset", 0, 0, 0, Arena)
  /\ arRanges' = <<>>
  /\ UNCHANGED <<arAllocs, notAR>>

ArenaClear ==
  /\ arCall.op # "none"
  /\ SetArena(clear(Arena))
  /\ arCall' = ARCall("clear", 0, 0, 0, Arena)
  /\ arRanges' = <<>>
  /\ UNCHANGED <<arAllocs, notAR>>

(* The chunk sizes an arena is constructed with, the sizes and the         *)
(* alignments requested.                                                   *)
ConstructSizes == {512, 1024, kDefaultChunkSize, 134217728}

RequestSizes == {0, 1, 24, 1000, 1024, kMaxAllocationSize, kMaxAllocationSize + 1}

RequestAlignments == {1, 16, 64, 268435456}

StringLengths == {0, 23, 1023, kMaxAllocationSize}

ARNext ==
  \/ \E nbytes \in ConstructSizes : ARConstruct(nbytes)
  \/ \E nbytes \in RequestSizes, alignment \in RequestAlignments : Allocate(nbytes, alignment)
  \/ \E length \in StringLengths : AllocateString(length)
  \/ ArenaReset
  \/ ArenaClear

GFCall(op, path, res, error, attempted, before) ==
  [op |-> op, path |-> path, res |-> res, error |-> error,
   attempted |-> attempted, before |-> before]

GFInit ==
  /\ gfCall = GFCall("none", "", NoEntry, 0, FALSE, FM)
  /\ gfFailed = [k \in CacheKeys |-> 0]

---------------------------------------------------------------------------
(* TokenManager: the token table, filled with the tokens of a lexed file.  *)
(* Indexes are those of the std::vector, from 0.                           *)

(* Token::getSourceRange *)
getSourceRange(token) ==
  IF token.length = 0 THEN [begin |-> token.loc, end |-> token.loc]
  ELSE [begin |-> token.loc, end |-> token.loc + token.length]

(* TokenManager::findTokenAtLocation: the loop from index i on *)
RECURSIVE findTokenAtLocation(_, _, _)
findTokenAtLocation(tokens, i, loc) ==
  IF i >= Len(tokens) THEN SIZE_MAX
  ELSE LET range == getSourceRange(tokens[i + 1])
       IN IF loc >= range.begin /\ loc <= range.end THEN i
          ELSE findTokenAtLocation(tokens, i + 1, loc)

TMCall(op, loc, res) == [op |-> op, loc |-> loc, res |-> res]

TMInit ==
  /\ tmTokens = <<>>
  /\ tmCall = TMCall("none", 0, 0)

(* addToken for every token tokenizeFile returns *)
TMAddTokens(source, opts) ==
  /\ tmTokens = <<>>
  /\ tmTokens' = tokenizeFile(source, opts).tokens
  /\ tmCall' = TMCall("addToken", 0, 0)
  /\ UNCHANGED notTM

TMFindTokenAtLocation(loc) ==
  /\ tmTokens # <<>>
  /\ tmCall' = TMCall("findTokenAtLocation", loc, findTokenAtLocation(tmTokens, 0, loc))
  /\ UNCHANGED <<tmTokens, notTM>>

(* TokenManager::clear *)
TMClear ==
  /\ tmTokens # <<>>
  /\ tmTokens' = <<>>
  /\ tmCall' = TMCall("clear", 0, 0)
  /\ UNCHANGED notTM

(* The locations asked for: the invalid one, every location of the file,   *)
(* its end-of-file location and the one after it.                          *)
TMLocations == 0..(tmTokens[Len(tmTokens)].loc + 1)

TMNext ==
  \/ \E source \in Sources, opts \in LexerOptions : TMAddTokens(source, opts)
  \/ /\ tmTokens # <<>>
     /\ \E loc \in TMLocations : TMFindTokenAtLocation(loc)
  \/ TMClear

---------------------------------------------------------------------------
(* SourceManager::getSourceText and getSourceLength *)

(* SourceManager::getFileEntry(FileID) *)
getFileEntry(files, fid) ==
  IF fid = 0 \/ fid > Len(files) THEN NoEntry ELSE files[fid].entry

(* SourceManager::getCharacterData: the pointer into the entry's buffer at *)
(* the location's offset, null when the offset is not below the size.      *)
getCharacterData(st, loc) ==
  LET f == getFileID(st, loc)
      entry == getFileEntry(f.st.files, f.res)
  IN IF entry = NoEntry THEN [st |-> f.st, res |-> NullPtr]
     ELSE LET o == getFileOffset(f.st, loc)
          IN IF o.res >= getSize(entry) THEN [st |-> o.st, res |-> NullPtr]
             ELSE [st |-> o.st, res |-> [buf |-> entry.filename, off |-> o.res]]

(* The bytes std::string(startPtr, endPtr) copies from a buffer *)
BytesBetween(files, startPtr, endPtr) ==
  LET i == CHOOSE k \in DOMAIN files : files[k].entry.filename = startPtr.buf
  IN SubSeq(files[i].entry.data, startPtr.off + 1, endPtr.off)

(* SourceManager::getSourceText(start, end): the strings the call can      *)
(* return.  Pointers into two different buffers are compared and ranged    *)
(* over without a defined result: the call gives the empty string or       *)
(* bytes that are in neither file.                                         *)
getSourceText(st, start, end) ==
  IF start = 0 \/ end = 0 THEN [st |-> st, texts |-> {<<>>}]
  ELSE
    LET startFID == getFileID(st, start)
        endFID == getFileID(startFID.st, end)
    IN IF startFID.res # endFID.res THEN [st |-> endFID.st, texts |-> {<<>>}]
       ELSE
         LET startPtr == getCharacterData(endFID.st, start)
             endPtr == getCharacterData(startPtr.st, end)
         IN [st |-> endPtr.st,
             texts |->
               IF startPtr.res = NullPtr \/ endPtr.res = NullPtr THEN {<<>>}
               ELSE IF startPtr.res.buf # endPtr.res.buf THEN {<<>>, <<NUL>>}
               ELSE IF startPtr.res.off > endPtr.res.off THEN {<<>>}
               ELSE {BytesBetween(endPtr.st.files, startPtr.res, endPtr.res)}]

(* SourceManager::getSourceLength(start, end) *)
getSourceLength(st, start, end) ==
  IF start = 0 \/ end = 0 THEN [st |-> st, res |-> 0]
  ELSE
    LET startFID == getFileID(st, start)
        endFID == getFileID(startFID.st, end)
    IN IF startFID.res # endFID.res THEN [st |-> endFID.st, res |-> 0]
       ELSE
         LET startOffset == getFileOffset(endFID.st, start)
             endOffset == getFileOffset(startOffset.st, end)
         IN [st |-> endOffset.st,
             res |-> IF endOffset.res >= startOffset.res
                       THEN endOffset.res - startOffset.res ELSE 0]

(* The last call: its arguments, the file table and cache it ran on, the   *)
(* string it returned and what getSourceLength returns for the same        *)
(* arguments right after it.                                               *)
STCall(op, start, end, before, text, length) ==
  [op |-> op, start |-> start, end |-> end, before |-> before,
   text |-> text, length |-> length]

STInit == stCall = STCall("none", 0, 0, [files |-> <<>>, cache |-> InvalidCache], <<>>, 0)

GetSourceText(start, end) ==
  \E r \in {getSourceText(ST, start, end)} : \E text \in r.texts :
    /\ loadedFiles' = r.st.files
    /\ g_location_cache' = r.st.cache
    /\ stCall' = STCall("getSourceText", start, end, ST, text,
                        getSourceLength(r.st, start, end).res)
    /\ UNCHANGED notST

GetSourceLength(start, end) ==
  \E r \in {getSourceLength(ST, start, end)} :
    /\ loadedFiles' = r.st.files
    /\ g_location_cache' = r.st.cache
    /\ stCall' = STCall("getSourceLength", start, end, ST, <<>>, r.res)
    /\ UNCHANGED notST

(* The model follows one getSourceText or getSourceLength call, made after *)
(* any number of createFileID and getFileID calls: those give the call     *)
(* every file table and every cached location it can find.                 *)
STNext ==
  \/ stCall.op = "none" /\ \E path \in Paths : CreateFileID(path)
  \/ stCall.op = "none" /\ \E loc \in Locs : GetFileID(loc)
  \/ stCall.op = "none" /\ \E start \in Locs, end \in Locs : GetSourceText(start, end)
  \/ stCall.op = "none" /\ \E start \in Locs, end \in Locs : GetSourceLength(start, end)

---------------------------------------------------------------------------
(* Two SourceManagers constructed over one FileManager and queried from    *)
(* one thread.  g_location_cache is thread_local and not a member, so both *)
(* managers read and write the same cache.                                 *)

Managers == {"A", "B"}

MaxQueries == 2

MgrST(m) == [files |-> mmMgr[m].files, cache |-> g_location_cache]

QueryOps == {"getFileID", "getLineNumber", "getColumnNumber"}

(* The query op on the table and cache st *)
Query(op, st, loc, unspec) ==
  CASE op = "getFileID" -> getFileID(st, loc)
    [] op = "getLineNumber" -> getLineNumber(st, loc, unspec)
    [] op = "getColumnNumber" -> getColumnNumber(st, loc)

(* The value the query would return from the cache alone *)
CachedValue(c, op) ==
  CASE op = "getFileID" -> c.last_file_id
    [] op = "getLineNumber" -> c.last_line
    [] op = "getColumnNumber" -> c.last_column

(* getLineNumber and getColumnNumber return the cached value for the       *)
(* cached location before they look at the file table.                     *)
ReturnsCached(c, op, loc) ==
  /\ op # "getFileID"
  /\ c.last_location # 0 /\ c.last_file_id # 0
  /\ CachedValue(c, op) > 0
  /\ loc = c.last_location

(* The call reaches getFileID's fast path, which reads                     *)
(* loadedFiles[last_file_id - 1], with a last_file_id beyond the table.    *)
IndexesBeyondTable(st, op, loc) ==
  /\ loc # 0
  /\ ~ReturnsCached(st.cache, op, loc)
  /\ st.cache.last_location # 0
  /\ st.cache.last_file_id > Len(st.files)

(* The outcomes of a query.  The read beyond the end of loadedFiles has no *)
(* defined value: either what is read as the file's interval does not      *)
(* contain loc, and the call goes on to the binary search, or it does, and *)
(* the call answers with what the cache holds.                             *)
QueryOutcomes(op, st, loc) ==
  IF IndexesBeyondTable(st, op, loc)
    THEN { [st |-> IF r.st.cache.last_file_id = 0
                     THEN [r.st EXCEPT !.cache.last_file_id = st.cache.last_file_id]
                     ELSE r.st,
            res |-> r.res] :
             r \in {Query(op, [files |-> st.files,
                               cache |-> [st.cache EXCEPT !.last_file_id = 0]],
                          loc, FALSE)} }
           \cup { [st |-> st, res |-> CachedValue(st.cache, op)] }
    ELSE {Query(op, st, loc, unspec) : unspec \in BOOLEAN}

(* What the query returns on the manager's table when nothing is cached *)
OwnAnswer(op, files, loc) ==
  Query(op, [files |-> files, cache |-> InvalidCache], loc, FALSE).res

(* The last call: foreign when the cache it found was last written by      *)
(* another manager, wild when it read beyond the end of loadedFiles, own   *)
(* the answer from the manager's table alone, n the number of queries so   *)
(* far.                                                                    *)
MMCall(m, op, loc, res, foreign, wild, own, n) ==
  [mgr |-> m, op |-> op, loc |-> loc, res |-> res, foreign |-> foreign,
   wild |-> wild, own |-> own, n |-> n]

(* Both managers are constructed: the second constructor has invalidated   *)
(* the cache.                                                              *)
MMInit ==
  /\ mmMgr = [m \in Managers |->
                [files |-> <<>>, map |-> [k \in CacheKeys |-> 0], counter |-> 1]]
  /\ mmCall = MMCall("", "none", 0, 0, FALSE, FALSE, 0, 0)
  /\ cacheOwner = ""

(* SourceManager::createFileID(filename) on manager m *)
MMCreateFileID(m, path) ==
  /\ normalizeFilename(path) \in DiskNames => nextEntryId <= MaxLoads
  /\ \E g \in getFileWithError(FM, path, nextEntryId) :
       /\ fileCache' = g.fm.cache
       /\ fileCacheCount' = g.fm.count
       /\ nextEntryId' = IF g.loaded THEN nextEntryId + 1 ELSE nextEntryId
       /\ fmHist' = IF g.loaded
                      THEN HistAfterPublish(fileCache, g.fm.cache,
                                            normalizeFilename(path), g.res)
                      ELSE fmHist
       /\ UNCHANGED maxCacheSize
       /\ IF g.res = NoEntry
            THEN /\ mmCall' = MMCall(m, "createFileID", 0, 0, FALSE, FALSE, 0, mmCall.n)
                 /\ UNCHANGED mmMgr
            ELSE LET r == createFileIDImpl(mmMgr[m], g.res)
                 IN /\ mmMgr' = [mmMgr EXCEPT ![m] = r.sm]
                    /\ mmCall' = MMCall(m, "createFileID", 0, r.res, FALSE, FALSE, r.res, mmCall.n)
       /\ UNCHANGED <<g_location_cache, cacheOwner, notMM>>

(* getFileID, getLineNumber or getColumnNumber on manager m *)
MMQuery(m, op, loc) ==
  \E r \in QueryOutcomes(op, MgrST(m), loc) :
    /\ mmMgr' = [mmMgr EXCEPT ![m].files = r.st.files]
    /\ g_location_cache' = r.st.cache
    /\ cacheOwner' = IF r.st.cache # g_location_cache THEN m ELSE cacheOwner
    /\ mmCall' = MMCall(m, op, loc, r.res,
                        cacheOwner \notin {"", m} /\ g_location_cache.last_location # 0,
                        IndexesBeyondTable(MgrST(m), op, loc),
                        OwnAnswer(op, mmMgr[m].files, loc), mmCall.n + 1)
    /\ UNCHANGED <<fmVars, notMM>>

(* The files are registered first, then the managers are queried *)
MMNext ==
  \/ mmCall.n = 0 /\ \E m \in Managers, path \in Paths : MMCreateFileID(m, path)
  \/ mmCall.n < MaxQueries
       /\ \E m \in Managers, op \in QueryOps, loc \in Locs : MMQuery(m, op, loc)

---------------------------------------------------------------------------
(* TokenInfo: the public keyword lookup and the spellings of token kinds *)

KEYWORD_LOOKUP_TABLE ==
  <<
    [keyword |-> <<97, 117, 116, 111>>, kind |-> "Auto"],  \* auto
    [keyword |-> <<98, 114, 101, 97, 107>>, kind |-> "Break"],  \* break
    [keyword |-> <<99, 97, 115, 101>>, kind |-> "Case"],  \* case
    [keyword |-> <<99, 111, 110, 115, 116>>, kind |-> "Const"],  \* const
    [keyword |-> <<99, 111, 110, 116, 105, 110, 117, 101>>, kind |-> "Continue"],  \* continue
    [keyword |-> <<100, 101, 102, 97, 117, 108, 116>>, kind |-> "Default"],  \* default
    [keyword |-> <<100, 111>>, kind |-> "Do"],  \* do
    [keyword |-> <<101, 108, 115, 101>>, kind |-> "Else"],  \* else
    [keyword |-> <<101, 110, 117, 109>>, kind |-> "Enum"],  \* enum
    [keyword |-> <<101, 120, 116, 101, 114, 110>>, kind |-> "Extern"],  \* extern
    [keyword |-> <<102, 97, 108, 115, 101>>, kind |-> "False"],  \* false
    [keyword |-> <<102, 111, 114>>, kind |-> "For"],  \* for
    [keyword |-> <<102, 117, 110, 99, 116, 105, 111, 110>>, kind |-> "Fn"],  \* function
    [keyword |-> <<105, 102>>, kind |-> "If"],  \* if
    [keyword |-> <<105, 109, 112, 111, 114, 116>>, kind |-> "Import"],  \* import
    [keyword |-> <<108, 101, 116>>, kind |-> "Let"],  \* let
    [keyword |-> <<109, 111, 100, 117, 108, 101>>, kind |-> "Mod"],  \* module
    [keyword |-> <<109, 117, 116>>, kind |-> "Mut"],  \* mut
    [keyword |-> <<110, 117, 108, 108>>, kind |-> "Null"],  \* null
    [keyword |-> <<114, 101, 116, 117, 114, 110>>, kind |-> "Return"],  \* return
    [keyword |-> <<115, 116, 114, 117, 99, 116>>, kind |-> "Struct"],  \* struct
    [keyword |-> <<115, 119, 105, 116, 99, 104>>, kind |-> "Switch"],  \* switch
    [keyword |-> <<116, 114, 117, 101>>, kind |-> "True"],  \* true
    [keyword |-> <<116, 121, 112, 101>>, kind |-> "Type"],  \* type
    [keyword |-> <<118, 97, 114>>, kind |-> "Var"],  \* var
    [keyword |-> <<119, 104, 105, 108, 101>>, kind |-> "While"]  \* while
  >>

(* std::lower_bound over [first, first + len) of KEYWORD_LOOKUP_TABLE with *)
(* the comparison entry.keyword < str; positions are 1-based and Len + 1   *)
(* is end()                                                                *)
RECURSIVE LowerBoundLookup(_, _, _)
LowerBoundLookup(first, len, str) ==
  IF len <= 0
    THEN first
    ELSE LET half == len \div 2
             mid == first + half
         IN IF Less(KEYWORD_LOOKUP_TABLE[mid].keyword, str)
              THEN LowerBoundLookup(mid + 1, len - half - 1, str)
              ELSE LowerBoundLookup(first, half, str)

(* TokenInfo::getKeywordKind *)
getKeywordKind(identifier) ==
  LET it == LowerBoundLookup(1, Len(KEYWORD_LOOKUP_TABLE), identifier)
  IN IF it # Len(KEYWORD_LOOKUP_TABLE) + 1
          /\ KEYWORD_LOOKUP_TABLE[it].keyword = identifier
       THEN KEYWORD_LOOKUP_TABLE[it].kind
       ELSE "Identifier"

(* The kinds TokenKind::Auto .. TokenKind::While, in the enum's order *)
KeywordKindsInOrder == [i \in DOMAIN KEYWORD_LOOKUP_TABLE |-> KEYWORD_LOOKUP_TABLE[i].kind]

(* TokenInfo::isKeyword *)
isKeyword(kind) == \E i \in DOMAIN KeywordKindsInOrder : KeywordKindsInOrder[i] = kind

(* TokenSpellings, for Identifier and the keyword kinds *)
TokenSpellings ==
  [kind \in {"Identifier"} \cup {KeywordKindsInOrder[i] : i \in DOMAIN KeywordKindsInOrder} |->
     ( CASE kind = "Identifier" -> <<60, 105, 100, 101, 110, 116, 105, 102, 105, 101, 114, 62>>  \* <identifier>
       [] kind = "Auto" -> <<97, 117, 116, 111>>  \* auto
       [] kind = "Break" -> <<98, 114, 101, 97, 107>>  \* break
       [] kind = "Case" -> <<99, 97, 115, 101>>  \* case
       [] kind = "Const" -> <<99, 111, 110, 115, 116>>  \* const
       [] kind = "Continue" -> <<99, 111, 110, 116, 105, 110, 117, 101>>  \* continue
       [] kind = "Default" -> <<100, 101, 102, 97, 117, 108, 116>>  \* default
       [] kind = "Do" -> <<100, 111>>  \* do
       [] kind = "Else" -> <<101, 108, 115, 101>>  \* else
       [] kind = "Enum" -> <<101, 110, 117, 109>>  \* enum
       [] kind = "Extern" -> <<101, 120, 116, 101, 114, 110>>  \* extern
       [] kind = "False" -> <<102, 97, 108, 115, 101>>  \* false
       [] kind = "For" -> <<102, 111, 114>>  \* for
       [] kind = "Fn" -> <<102, 117, 110, 99, 116, 105, 111, 110>>  \* function
       [] kind = "If" -> <<105, 102>>  \* if
       [] kind = "Import" -> <<105, 109, 112, 111, 114, 116>>  \* import
       [] kind = "Let" -> <<108, 101, 116>>  \* let
       [] kind = "Mod" -> <<109, 111, 100, 117, 108, 101>>  \* module
       [] kind = "Mut" -> <<109, 117, 116>>  \* mut
       [] kind = "Null" -> <<110, 117, 108, 108>>  \* null
       [] kind = "Return" -> <<114, 101, 116, 117, 114, 110>>  \* return
       [] kind = "Struct" -> <<115, 116, 114, 117, 99, 116>>  \* struct
       [] kind = "Switch" -> <<115, 119, 105, 116, 99, 104>>  \* switch
       [] kind = "True" -> <<116, 114, 117, 101>>  \* true
       [] kind = "Type" -> <<116, 121, 112, 101>>  \* type
       [] kind = "Var" -> <<118, 97, 114>>  \* var
       [] kind = "While" -> <<119, 104, 105, 108, 101>> )]  \* while

(* TokenInfo::getTokenSpelling *)
getTokenSpelling(kind) == TokenSpellings[kind]

TICall(op, text, kind) == [op |-> op, text |-> text, kind |-> kind]

TIInit == tiCall = TICall("none", <<>>, "Unknown")

GetKeywordKind(identifier) ==
  /\ tiCall' = TICall("getKeywordKind", identifier, getKeywordKind(identifier))
  /\ UNCHANGED notTI

GetTokenSpelling(kind) ==
  /\ tiCall' = TICall("getTokenSpelling", getTokenSpelling(kind), kind)
  /\ UNCHANGED notTI

(* One lexer token next to the TokenInfo calls *)
TINext ==
  \/ lexed = <<>> /\ \E text \in Lexemes : LexIdentifier(text)
  \/ NewLexer
  \/ \E text \in Lexemes : GetKeywordKind(text)
  \/ \E kind \in DOMAIN TokenSpellings : GetTokenSpelling(kind)

---------------------------------------------------------------------------
Init ==
  /\ FMInit /\ SMInit /\ ThreadsInit /\ KWInit /\ SIInit /\ DMInit /\ LXInit
  /\ LNInit /\ ARInit /\ GFInit /\ TMInit /\ STInit /\ MMInit /\ TIInit

SpecSM == Init /\ [][SMNext]_vars

SpecLN == Init /\ [][LN1Next]_vars

SpecLNC == Init /\ [][LNNext]_vars

SpecAR == Init /\ [][ARNext]_vars

SpecTI == Init /\ [][TINext]_vars

SpecMM == Init /\ [][MMNext]_vars

SpecST == Init /\ [][STNext]_vars

SpecTM == Init /\ [][TMNext]_vars

---------------------------------------------------------------------------
(* Claims about the SourceManager *)

IntervalEnd(info) == info.offset + getSize(info.entry)

(* C1: the location intervals [start, start + size] of distinct FileIDs    *)
(* are pairwise disjoint: a file created later starts strictly after the   *)
(* end-of-file location of every file created earlier.                     *)
C1_DisjointIntervals ==
  \A i, j \in DOMAIN loadedFiles :
    i < j => IntervalEnd(loadedFiles[i]) < loadedFiles[j].offset

(* C2: location round trip: for every issued FileID and every offset in    *)
(* [0, size], fileOffset(locForFileOffset(fid, offset)) = offset and       *)
(* fileId(locForFileOffset(fid, offset)) = fid, in every state of the      *)
(* file table and of the last-location cache.                              *)
C2_LocationRoundTrip ==
  \A fid \in DOMAIN loadedFiles :
    \A offset \in 0..getSize(loadedFiles[fid].entry) :
      LET loc == getLocForFileOffset(loadedFiles, fid, offset)
      IN /\ getFileOffset(ST, loc).res = offset
         /\ getFileID(ST, loc).res = fid

(* The authoritative answers: the computation with no cached location     *)
Authoritative(loc) ==
  getLineAndColumn([files |-> loadedFiles, cache |-> InvalidCache], loc)

AuthoritativeFileID(loc) ==
  getFileID([files |-> loadedFiles, cache |-> InvalidCache], loc).res

(* C3: the last-location cache is only a fast path: every getFileID,       *)
(* getLineNumber and getColumnNumber call returns what the authoritative   *)
(* computation gives for that location, whatever was queried before.       *)
C3_CacheIsOnlyFastPath ==
  /\ smCall.op = "getFileID" => smCall.res = AuthoritativeFileID(smCall.loc)
  /\ smCall.op = "getLineNumber" => smCall.res = Authoritative(smCall.loc).line
  /\ smCall.op = "getColumnNumber" => smCall.res = Authoritative(smCall.loc).column

---------------------------------------------------------------------------
(* getFile and createFileID called from several threads.  A step is one    *)
(* critical section (or the unlocked load between two of them).            *)

AtRest(t) == thr[t].pc \in {"idle", "done"}

(* Where a thread goes when getFileWithError hands back an entry           *)
AfterGetFile(t, entry, via) ==
  IF thr[t].op = "getFile"
    THEN [thr[t] EXCEPT !.pc = "done", !.entry = entry, !.via = via]
    ELSE [thr[t] EXCEPT !.pc = "sm_fast", !.entry = entry]

CallGetFile(t, path) ==
  /\ AtRest(t)
  /\ thr' = [thr EXCEPT ![t] = [Idle EXCEPT !.pc = "fm_check", !.op = "getFile",
                                           !.path = path]]
  /\ UNCHANGED <<fmVars, smVars, langVars>>

CallCreateFileID(t, path) ==
  /\ AtRest(t)
  /\ thr' = [thr EXCEPT ![t] = [Idle EXCEPT !.pc = "fm_check", !.op = "createFileID",
                                           !.path = path]]
  /\ UNCHANGED <<fmVars, smVars, langVars>>

(* getFileWithError, first critical section: the cache lookup *)
FMCheck(t) ==
  /\ thr[t].pc = "fm_check"
  /\ LET name == normalizeFilename(thr[t].path)
     IN IF fileCache[name] # NoEntry
          THEN thr' = [thr EXCEPT ![t] = AfterGetFile(t, fileCache[name], "hit")]
          ELSE thr' = [thr EXCEPT ![t].pc = "fm_load"]
  /\ UNCHANGED <<fmVars, smVars, langVars>>

(* getFileWithError: loadFile, outside the lock *)
FMLoad(t) ==
  /\ thr[t].pc = "fm_load"
  /\ normalizeFilename(thr[t].path) \in DiskNames => nextEntryId <= MaxLoads
  /\ LET name == normalizeFilename(thr[t].path)
         entry == loadFile(name, nextEntryId)
     IN IF entry = NoEntry
          THEN /\ thr' = [thr EXCEPT ![t].pc = "done", ![t].via = "error"]
               /\ UNCHANGED nextEntryId
          ELSE /\ thr' = [thr EXCEPT ![t].pc = "fm_publish", ![t].entry = entry]
               /\ nextEntryId' = nextEntryId + 1
  /\ UNCHANGED <<fileCache, fileCacheCount, maxCacheSize, fmHist, smVars, langVars>>

(* getFileWithError, second critical section *)
FMPublish(t) ==
  /\ thr[t].pc = "fm_publish"
  /\ LET name == normalizeFilename(thr[t].path)
     IN \E p \in publishEntry(FM, name, thr[t].entry) :
          /\ fileCache' = p.fm.cache
          /\ fileCacheCount' = p.fm.count
          /\ fmHist' = HistAfterPublish(fileCache, p.fm.cache, name, p.res)
          /\ thr' = [thr EXCEPT ![t] =
                       AfterGetFile(t, p.res,
                                    IF fileCache[name] # NoEntry THEN "recheck"
                                    ELSE "inserted")]
  /\ UNCHANGED <<maxCacheSize, nextEntryId, smVars, langVars>>

(* createFileIDWithError: the fast path under stateMutex *)
SMFast(t) ==
  /\ thr[t].pc = "sm_fast"
  /\ LET fid == filenameToFileID[thr[t].entry.filename]
     IN IF fid # 0
          THEN thr' = [thr EXCEPT ![t].pc = "done", ![t].fid = fid, ![t].via = "fast"]
          ELSE thr' = [thr EXCEPT ![t].pc = "sm_impl"]
  /\ UNCHANGED <<fmVars, smVars, langVars>>

(* createFileIDWithError: createFileIDImpl, under stateMutex *)
SMImpl(t) ==
  /\ thr[t].pc = "sm_impl"
  /\ LET r == createFileIDImpl(SM, thr[t].entry)
     IN /\ loadedFiles' = r.sm.files
        /\ filenameToFileID' = r.sm.map
        /\ nextLocationID' = r.sm.counter
        /\ thr' = [thr EXCEPT ![t].pc = "done", ![t].fid = r.res,
                              ![t].via = IF Len(r.sm.files) = Len(loadedFiles)
                                           THEN "recheck" ELSE "created"]
  /\ UNCHANGED <<fmVars, g_location_cache, smCall, langVars>>

CFNext ==
  \/ \E t \in Threads, path \in Paths : CallCreateFileID(t, path)
  \/ \E t \in Threads : FMCheck(t)
  \/ \E t \in Threads : FMLoad(t)
  \/ \E t \in Threads : FMPublish(t)
  \/ \E t \in Threads : SMFast(t)
  \/ \E t \in Threads : SMImpl(t)

SpecCF == Init /\ [][CFNext]_vars

---------------------------------------------------------------------------
(* Claims about createFileID *)

C7_TableInv ==
  /\ \A i \in DOMAIN loadedFiles :
       filenameToFileID[loadedFiles[i].entry.filename] = i
  /\ \A k \in DOMAIN filenameToFileID :
       /\ filenameToFileID[k] \in 0..Len(loadedFiles)
       /\ filenameToFileID[k] # 0 =>
            loadedFiles[filenameToFileID[k]].entry.filename = k
  /\ \A i, j \in DOMAIN loadedFiles :
       i < j => loadedFiles[i].offset < loadedFiles[j].offset
  /\ \A t \in Threads :
       (thr[t].pc = "done" /\ thr[t].op = "createFileID" /\ thr[t].via # "error") =>
         /\ thr[t].fid \in 1..Len(loadedFiles)
         /\ loadedFiles[thr[t].fid].entry.filename = normalizeFilename(thr[t].path)

C7_Step ==
  /\ Len(loadedFiles') \in {Len(loadedFiles), Len(loadedFiles) + 1}
  /\ \A i \in DOMAIN loadedFiles :
       /\ loadedFiles'[i].offset = loadedFiles[i].offset
       /\ loadedFiles'[i].entry.filename = loadedFiles[i].entry.filename
  /\ \A t \in Threads :
       LET fid == filenameToFileID[normalizeFilename(thr[t].path)]
       IN (thr[t].pc # "done" /\ thr'[t].pc = "done" /\ thr[t].op = "createFileID"
           /\ fid # 0) =>
            /\ thr'[t].fid = fid
            /\ loadedFiles' = loadedFiles
            /\ nextLocationID' = nextLocationID

(* C7: createFileID for a canonical path that already has a FileID returns *)
(* that FileID without adding a file-table entry or advancing the location *)
(* counter; under every interleaving the FileIDs are dense 1..N in         *)
(* insertion order, each keeps its start offset, and the file table stays  *)
(* sorted by start offset.                                                 *)
C7_CreateFileStable == C7_TableInv /\ [][C7_TableInv' /\ C7_Step]_vars

(* Two threads raced on one new path: one created the entry, the other     *)
(* was answered by the re-check under the lock with the same FileID; and a *)
(* second file is in the table.                                            *)
C7_Witness ==
  /\ Len(loadedFiles) = 2
  /\ \E t, u \in Threads :
       /\ thr[t].pc = "done" /\ thr[t].op = "createFileID" /\ thr[t].via = "recheck"
       /\ thr[u].pc = "done" /\ thr[u].op = "createFileID" /\ thr[u].via = "created"
       /\ thr[t].fid = thr[u].fid
       /\ thr[t].path # thr[u].path

---------------------------------------------------------------------------
(* The FileManager used from several threads *)

(* The limits setMaxCacheSize is called with: below the smallest file,     *)
(* between the two files and their sum, and no limit.                      *)
CacheLimits == {2, 5, SIZE_MAX}

(* FileManager::removeFromCache *)
RemoveFromCache(path) ==
  LET name == normalizeFilename(path)
  IN /\ fileCache[name] # NoEntry
     /\ fileCache' = [fileCache EXCEPT ![name] = NoEntry]
     /\ fileCacheCount' = fileCacheCount - 1
     /\ fmHist' = [fmHist EXCEPT !.removed = fmHist.removed \cup {name}]
     /\ UNCHANGED <<maxCacheSize, nextEntryId, smVars, thr, langVars>>

(* FileManager::clearCache *)
ClearFileCache ==
  /\ CachedKeys(fileCache) # {}
  /\ fileCache' = [k \in CacheKeys |-> NoEntry]
  /\ fileCacheCount' = 0
  /\ fmHist' = [fmHist EXCEPT !.removed = fmHist.removed \cup CachedKeys(fileCache)]
  /\ UNCHANGED <<maxCacheSize, nextEntryId, smVars, thr, langVars>>

(* FileManager::setMaxCacheSize *)
SetMaxCacheSize(maxSize) ==
  /\ maxCacheSize # maxSize
  /\ maxCacheSize' = maxSize
  /\ UNCHANGED <<fileCache, fileCacheCount, nextEntryId, fmHist, smVars, thr, langVars>>

FMNext ==
  \/ \E t \in Threads, path \in Paths : CallGetFile(t, path)
  \/ \E t \in Threads : FMCheck(t)
  \/ \E t \in Threads : FMLoad(t)
  \/ \E t \in Threads : FMPublish(t)
  \/ \E path \in Paths : RemoveFromCache(path)
  \/ ClearFileCache
  \/ \E maxSize \in CacheLimits : SetMaxCacheSize(maxSize)

SpecFM == Init /\ [][FMNext]_vars

---------------------------------------------------------------------------
(* The FileManager used from one thread: getFileWithError as one call,     *)
(* with the error code it returns.                                         *)

MaxFailures == 2

(* std::errc::no_such_file_or_directory and std::errc::io_error *)
ENOENT == 2

EIO == 5

loadFileWithError_Silent(name, id, fault) ==
  IF name \notin DiskNames \/ fault THEN [entry |-> NoEntry, error |-> 0]
  ELSE [entry |-> loadFile(name, id), error |-> 0]

(* FileManager::loadFile with its error code.  fault: the file exists but  *)
(* the stream cannot be opened or gives fewer bytes than file_size said.   *)
loadFileWithError(name, id, fault) ==
  IF name \notin DiskNames THEN [entry |-> NoEntry, error |-> ENOENT]
  ELSE IF fault THEN [entry |-> NoEntry, error |-> EIO]
  ELSE [entry |-> loadFile(name, id), error |-> 0]

(* FileManager::getFileWithError: the outcomes [fm, res, error], with      *)
(* whether loadFile was called and whether it gave an entry.               *)
getFileWithErrorCode(fm, filename, id, fault) ==
  LET name == normalizeFilename(filename)
  IN IF fm.cache[name] # NoEntry
       THEN {[fm |-> fm, res |-> fm.cache[name], error |-> 0,
              attempted |-> FALSE, loaded |-> FALSE]}
       ELSE LET l == loadFileWithError(name, id, fault)
            IN IF l.error # 0
                 THEN {[fm |-> fm, res |-> NoEntry, error |-> l.error,
                        attempted |-> TRUE, loaded |-> FALSE]}
                 ELSE {[fm |-> p.fm, res |-> p.res, error |-> 0,
                        attempted |-> TRUE, loaded |-> TRUE] :
                         p \in publishEntry(fm, name, l.entry)}

GFGetFile(path, fault) ==
  /\ nextEntryId <= MaxLoads
  /\ gfFailed[normalizeFilename(path)] < MaxFailures
  /\ \E g \in getFileWithErrorCode(FM, path, nextEntryId, fault) :
       /\ fileCache' = g.fm.cache
       /\ fileCacheCount' = g.fm.count
       /\ nextEntryId' = IF g.loaded THEN nextEntryId + 1 ELSE nextEntryId
       /\ fmHist' = IF g.loaded
                      THEN HistAfterPublish(fileCache, g.fm.cache,
                                            normalizeFilename(path), g.res)
                      ELSE fmHist
       /\ gfCall' = GFCall("getFile", path, g.res, g.error, g.attempted, FM)
       /\ gfFailed' = IF g.error # 0
                        THEN [gfFailed EXCEPT ![normalizeFilename(path)] = @ + 1]
                        ELSE gfFailed
  /\ UNCHANGED <<maxCacheSize, notGF>>

(* FileManager::removeFromCache *)
GFRemoveFromCache(path) ==
  LET name == normalizeFilename(path)
  IN /\ fileCache[name] # NoEntry
     /\ fileCache' = [fileCache EXCEPT ![name] = NoEntry]
     /\ fileCacheCount' = fileCacheCount - 1
     /\ fmHist' = [fmHist EXCEPT !.removed = fmHist.removed \cup {name}]
     /\ gfCall' = GFCall("removeFromCache", path, NoEntry, 0, FALSE, FM)
     /\ UNCHANGED <<maxCacheSize, nextEntryId, gfFailed, notGF>>

(* FileManager::clearCache *)
GFClearCache ==
  /\ CachedKeys(fileCache) # {}
  /\ fileCache' = [k \in CacheKeys |-> NoEntry]
  /\ fileCacheCount' = 0
  /\ fmHist' = [fmHist EXCEPT !.removed = fmHist.removed \cup CachedKeys(fileCache)]
  /\ gfCall' = GFCall("clearCache", "", NoEntry, 0, FALSE, FM)
  /\ UNCHANGED <<maxCacheSize, nextEntryId, gfFailed, notGF>>

(* FileManager::setMaxCacheSize *)
GFSetMaxCacheSize(maxSize) ==
  /\ maxCacheSize # maxSize
  /\ maxCacheSize' = maxSize
  /\ gfCall' = GFCall("setMaxCacheSize", "", NoEntry, 0, FALSE, FM)
  /\ UNCHANGED <<fileCache, fileCacheCount, nextEntryId, fmHist, gfFailed, notGF>>

GFNext ==
  \/ \E path \in Paths, fault \in BOOLEAN : GFGetFile(path, fault)
  \/ \E path \in Paths : GFRemoveFromCache(path)
  \/ GFClearCache
  \/ \E maxSize \in CacheLimits : GFSetMaxCacheSize(maxSize)

SpecGF == Init /\ [][GFNext]_vars

---------------------------------------------------------------------------
(* Claims about getFile *)

GotFile(t, name) ==
  /\ thr[t].pc = "done" /\ thr[t].op = "getFile" /\ thr[t].via # "error"
  /\ normalizeFilename(thr[t].path) = name

(* C8 as stated: whenever threads call getFile for one path (and nobody    *)
(* calls removeFromCache or clearCache on it), every caller receives the   *)
(* entry inserted first and the cache holds exactly that entry.            *)
C8_SameEntryForAll ==
  \A name \in CacheKeys \ fmHist.removed :
    \A t \in Threads :
      GotFile(t, name) =>
        /\ thr[t].entry = fmHist.first[name]
        /\ fileCache[name] = fmHist.first[name]

C8_KeptInv ==
  \A name \in CacheKeys \ (fmHist.removed \cup fmHist.evicted) :
    \A t \in Threads :
      GotFile(t, name) =>
        /\ thr[t].entry = fmHist.first[name]
        /\ fileCache[name] = fmHist.first[name]

C8_LaterHit ==
  \A name \in CacheKeys \ (fmHist.removed \cup fmHist.evicted) :
    \A t, u \in Threads :
      (/\ GotFile(u, name)
       /\ thr[t].pc = "fm_check" /\ thr'[t].pc # "fm_check"
       /\ normalizeFilename(thr[t].path) = name) =>
        /\ thr'[t].pc = "done" /\ thr'[t].via = "hit"
        /\ thr'[t].entry = thr[u].entry

(* C8, amended: as long as the size limit has evicted no entry of the path *)
(* (and none was removed), every caller of getFile for the path receives   *)
(* the entry inserted first, the cache holds exactly that entry, and a     *)
(* later getFile for the path is a cache hit returning it.                 *)
C8_SameEntryWhileKept == C8_KeptInv /\ [][C8_KeptInv' /\ C8_LaterHit]_vars

(* Two threads loaded the same uncached file; one inserted its entry, the  *)
(* other found it at the re-check and returned the winner's entry.         *)
C8_Witness ==
  \E t, u \in Threads :
    /\ thr[t].pc = "done" /\ thr[t].op = "getFile" /\ thr[t].via = "recheck"
    /\ thr[u].pc = "done" /\ thr[u].op = "getFile" /\ thr[u].via = "inserted"
    /\ thr[t].entry = thr[u].entry
    /\ fileCache[thr[u].entry.filename] = thr[u].entry
    /\ thr[u].entry.filename \notin fmHist.removed \cup fmHist.evicted

---------------------------------------------------------------------------
(* The keyword lookup *)

SpecKW == Init /\ [][KWNext]_vars

(* C4: every lexeme spelled like a keyword becomes a token of that         *)
(* keyword's kind carrying the IsKeyword flag, and every other lexeme      *)
(* becomes a token of kind Identifier.                                     *)
C4_KeywordDichotomy ==
  \A i \in DOMAIN lexed :
    LET s == lexed[i].spelling
        t == lexed[i].token
    IN IF \E k \in Keywords : k.first = s
         THEN /\ \A k \in Keywords : k.first = s => t.kind = k.second
              /\ "IsKeyword" \in t.flags
         ELSE t.kind = "Identifier"

---------------------------------------------------------------------------
(* The StringInterner used from several threads *)

SpecSI == Init /\ [][SINext]_vars


(* C5: without an intervening clear(), two intern calls return equal       *)
(* handles exactly when their byte sequences are equal; so every later     *)
(* intern(s) returns the handle first returned for s, whatever was         *)
(* interned and however the tables grew in between.                        *)
C5_InternIdentity ==
  \A p, q \in issued : (p.handle = q.handle) <=> (p.str = q.str)

(* intern(s) answered from the table after another string was interned     *)
(* and the reserve in intern enlarged the table                            *)
C5_Witness ==
  \E t \in Threads :
    /\ ith[t].pc = "done" /\ ith[t].op = "intern" /\ ith[t].via = "fast"
    /\ [str |-> ith[t].str, handle |-> ith[t].res] \in issued
    /\ Cardinality({p.str : p \in issued}) >= 3
    /\ Cardinality(Storage) >= 2
    /\ bucket_count \notin {InitialReserve, 1}

(* C6: threads interning equal bytes concurrently all get one handle and   *)
(* one copy is stored, which size() counts once; a lookup, contains or     *)
(* size call never sees a half-done insert.                                *)
C6_ConcurrentIntern ==
  /\ \A s \in Strings : Cardinality({p.handle : p \in {q \in issued : q.str = s}}) <= 1
  /\ \A s \in Strings : Cardinality({a \in Storage : heap[a] = s}) <= 1
  /\ Mutex = "none" => size(SI) = Cardinality({p.str : p \in issued} \ {<<>>})
  /\ \A t \in Threads :
       ith[t].op \in {"lookup", "contains", "size"} => ~ith[t].partial

(* One thread found at its re-check what the other thread had inserted in  *)
(* between, and the other thread then looked the string up                 *)
C6_Witness ==
  \E t, u \in Threads :
    /\ t # u
    /\ ith[t].pc = "done" /\ ith[t].op = "intern" /\ ith[t].via = "recheck"
    /\ [str |-> ith[t].str, handle |-> ith[t].res] \in issued
    /\ ith[u].pc = "done" /\ ith[u].op = "lookup" /\ ith[u].str = ith[t].str
    /\ ith[u].res = ith[t].res
    /\ size(SI) = 1

---------------------------------------------------------------------------
(* The DiagnosticManager *)

SpecDM == Init /\ [][DMNext]_vars


(* C9: no report call and no filter-setting call lowers noteCount,         *)
(* warningCount, errorCount, fatalCount or diagnosticCount; only reset()   *)
(* does, and it leaves all five at zero.                                   *)
C9_CountersMonotone ==
  [][IF Reset
       THEN diagStats' = NoStats
       ELSE /\ diagStats'.noteCount >= diagStats.noteCount
            /\ diagStats'.warningCount >= diagStats.warningCount
            /\ diagStats'.errorCount >= diagStats.errorCount
            /\ diagStats'.fatalCount >= diagStats.fatalCount
            /\ diagStats'.diagnosticCount >= diagStats.diagnosticCount]_vars

(* Two notes were delivered but one is counted, so reset() came between    *)
(* them; the notes are suppressed now, so setSuppressNotes(true) came      *)
(* after the count and left it alone                                       *)
C9_Witness ==
  /\ Cardinality({d.diag : d \in {delivered[i] : i \in DOMAIN delivered}}) = 2
  /\ diagStats.noteCount = 1
  /\ diagStats.diagnosticCount = 1
  /\ suppressNotes

(* C10: shouldContinue() is false when a Fatal diagnostic was reported     *)
(* since the last reset() or when maxErrors > 0 and errorCount >=          *)
(* maxErrors, and true in every other state.                               *)
C10_ShouldContinue ==
  LET stop == fatalReported \/ (maxErrors > 0 /\ diagStats.errorCount >= maxErrors)
  IN /\ shouldContinue(DM) = ~stop
     /\ dmCall = "stop" => stop
     /\ dmCall = "continue" => ~stop

(* shouldContinue() answered false after a Fatal, with no error cap set *)
C10_Witness ==
  /\ dmCall = "stop"
  /\ fatalReported
  /\ maxErrors = 0
  /\ diagStats.errorCount = 0


(* The level the table gives a reported id *)
ReportedLevel(id) == getDiagnosticInfo(id).Level

(* What the filters say about a reported id *)
Suppressed(id) ==
  \/ ReportedLevel(id) = "Note" /\ suppressNotes
  \/ ReportedLevel(id) = "Warning" /\ suppressWarnings

(* The handleDiagnostic calls a step adds to the history *)
NewDeliveries == SubSeq(delivered', Len(delivered) + 1, Len(delivered'))

(* C11: with maxErrors > 0, a diagnostic that is not suppressed and after  *)
(* whose counting errorCount >= maxErrors is counted but reaches no        *)
(* consumer; with maxErrors = 0 every diagnostic that is not suppressed    *)
(* reaches every consumer, however many errors were counted.               *)
C11_ErrorCap ==
  [][\A id \in DiagIDs :
       (Report(id) /\ ~Suppressed(id)) =>
         /\ diagStats'.diagnosticCount = diagStats.diagnosticCount + 1
         /\ (maxErrors > 0 /\ diagStats'.errorCount >= maxErrors)
              => delivered' = delivered
         /\ maxErrors = 0 => Len(NewDeliveries) = Len(consumers)]_vars

(* The text consumer got the first error; the second was counted, reached  *)
(* the cap of 2 and was not handed to it                                   *)
C11_Witness ==
  /\ maxErrors = 2
  /\ consumers = <<"text">>
  /\ reported = 2
  /\ diagStats.errorCount = 2
  /\ diagStats.diagnosticCount = 2
  /\ Len(delivered) = 1
  /\ delivered[1].consumer = "text" /\ delivered[1].diag = 1

(* C12: a Warning reported while suppressWarnings is set, or a Note while  *)
(* suppressNotes is set, changes no counter and reaches no consumer; an    *)
(* Error or Fatal is counted whatever the three filter settings are.       *)
C12_Suppression ==
  [][\A id \in DiagIDs :
       Report(id) =>
         /\ Suppressed(id) => (diagStats' = diagStats /\ delivered' = delivered)
         /\ ReportedLevel(id) = "Error"
              => /\ diagStats'.errorCount = diagStats.errorCount + 1
                 /\ diagStats'.diagnosticCount = diagStats.diagnosticCount + 1
         /\ ReportedLevel(id) = "Fatal"
              => /\ diagStats'.fatalCount = diagStats.fatalCount + 1
                 /\ diagStats'.diagnosticCount = diagStats.diagnosticCount + 1]_vars

(* Two reports were made and the text consumer was registered throughout;  *)
(* the first, a warning, was counted and delivered; the second left no     *)
(* trace, and no error is counted, so no cap withheld it                   *)
C12_Witness ==
  /\ reported = 2
  /\ consumers = <<"text">>
  /\ Len(delivered) = 1
  /\ delivered[1].consumer = "text" /\ delivered[1].diag = 1
  /\ delivered[1].Level = "Warning"
  /\ diagStats = [NoStats EXCEPT !.warningCount = 1, !.diagnosticCount = 1]
  /\ suppressWarnings

(* C13: a Warning that is not suppressed is, with warningsAsErrors, counted *)
(* in errorCount and not in warningCount, tested against the cap as an     *)
(* error, and handed to the consumers with level Error; without            *)
(* warningsAsErrors it is counted in warningCount and handed over with     *)
(* level Warning.                                                          *)
C13_WarningsAsErrors ==
  [][\A id \in DiagIDs :
       (Report(id) /\ ReportedLevel(id) = "Warning" /\ ~suppressWarnings) =>
         LET capped == maxErrors > 0 /\ diagStats'.errorCount >= maxErrors
         IN /\ Len(NewDeliveries) = IF capped THEN 0 ELSE Len(consumers)
            /\ IF warningsAsErrors
                 THEN /\ diagStats'.errorCount = diagStats.errorCount + 1
                      /\ diagStats'.warningCount = diagStats.warningCount
                      /\ \A i \in DOMAIN NewDeliveries : NewDeliveries[i].Level = "Error"
                 ELSE /\ diagStats'.warningCount = diagStats.warningCount + 1
                      /\ diagStats'.errorCount = diagStats.errorCount
                      /\ \A i \in DOMAIN NewDeliveries :
                           NewDeliveries[i].Level = "Warning"]_vars

(* The first report was a warning delivered as an Error; two errors and no *)
(* warning are counted, and the second report hit the cap of 2             *)
C13_Witness ==
  /\ maxErrors = 2
  /\ reported = 2
  /\ consumers = <<"text">>
  /\ Len(delivered) = 1
  /\ delivered[1].tableLevel = "Warning" /\ delivered[1].Level = "Error"
  /\ diagStats = [NoStats EXCEPT !.errorCount = 2, !.diagnosticCount = 2]

(* The numbers of the diagnostics a consumer was handed, in order *)
RECURSIVE SeenBy(_, _)
SeenBy(consumer, log) ==
  IF log = <<>>
    THEN <<>>
    ELSE IF log[1].consumer = consumer
           THEN <<log[1].diag>> \o SeenBy(consumer, Tail(log))
           ELSE SeenBy(consumer, Tail(log))

C14_Inv ==
  \A k \in DOMAIN Consumers :
    LET seen == SeenBy(Consumers[k], delivered)
    IN \A i, j \in DOMAIN seen : i < j => seen[i] < seen[j]

C14_Step ==
  /\ \A id \in DiagIDs :
       Report(id) =>
         IF Suppressed(id) \/ (maxErrors > 0 /\ diagStats'.errorCount >= maxErrors)
           THEN delivered' = delivered
           ELSE /\ Len(NewDeliveries) = Len(consumers)
                /\ \A i \in DOMAIN NewDeliveries :
                     /\ NewDeliveries[i].consumer = consumers[i]
                     /\ NewDeliveries[i].diag = reported + 1
  /\ reported' = reported => delivered' = delivered
  /\ AddConsumer => \E c \in {Consumers[k] : k \in DOMAIN Consumers} :
                      consumers' = Append(consumers, c)

(* C14: a diagnostic that is neither suppressed nor withheld by the cap is *)
(* handed exactly once to every registered consumer, in the order the      *)
(* consumers were added, and every consumer is handed the diagnostics in   *)
(* the order they were reported.                                           *)
C14_DeliveryOrder == C14_Inv /\ [][C14_Inv' /\ C14_Step]_vars

(* Two diagnostics, each handed to the text consumer and then to the JSON  *)
(* consumer, which was added second                                        *)
C14_Witness ==
  /\ consumers = <<"text", "json">>
  /\ Len(delivered) = 4
  /\ <<delivered[1].consumer, delivered[2].consumer,
       delivered[3].consumer, delivered[4].consumer>> = <<"text", "json", "text", "json">>
  /\ <<delivered[1].diag, delivered[2].diag, delivered[3].diag, delivered[4].diag>>
       = <<1, 1, 2, 2>>

---------------------------------------------------------------------------
(* Claims about the Lexer *)

SpecLX == Init /\ [][LXNext]_vars

(* A step in which the lexer scans a token: nextToken or peekToken with    *)
(* nothing buffered.                                                       *)
ScanStep == ~hasPeekedToken /\ (NextToken \/ PeekToken)

(* The offset of a token in the lexed file *)
TokenOffset(token) == token.loc - srcMgr(lxSource)[1].offset

(* Where the literal opening at offset p meets a raw CR or LF: only bytes  *)
(* other than quote, backslash, CR and LF lie between.                     *)
RawLineEnds(source, p) ==
  {q \in (p + 1)..(Len(source) - 1) :
     /\ ByteAt(source, q) \in {LF, CR}
     /\ \A k \in (p + 1)..(q - 1) : ByteAt(source, k) \notin {34, 92, LF, CR}}

(* C15: when a string literal meets a raw CR or LF before a closing quote, *)
(* the scan of the literal stops at that byte (the lexer is left there),   *)
(* and exactly one UnterminatedStringLiteral diagnostic is reported, at    *)
(* the location of the opening quote.                                      *)
C15_RawLineEndInString ==
  [][\A q \in 0..Len(lxSource) :
       (/\ ScanStep
        /\ lxCall'.token.kind = "String"
        /\ q \in RawLineEnds(lxSource, TokenOffset(lxCall'.token)))
       => /\ lxCurrent' = q
          /\ lxDiags' = Append(lxDiags, [id |-> "UnterminatedStringLiteralError",
                                         loc |-> lxCall'.token.loc])]_vars

(* What the code does in that case: the token ends with the line-end byte *)
(* and nothing is reported.                                                *)
LineEndTakenAsQuote ==
  [][\A q \in 0..Len(lxSource) :
       (/\ ScanStep
        /\ lxCall'.token.kind = "String"
        /\ q \in RawLineEnds(lxSource, TokenOffset(lxCall'.token)))
       => /\ lxCurrent' = q + 1
          /\ lxDiags' = lxDiags]_vars


(* Where the literal opening the file ends when nothing closes it: at the  *)
(* first raw CR or LF, or at the end of input.                             *)
UnclosedEnd(source) ==
  IF RawLineEnds(source, 0) = {} THEN Len(source)
  ELSE CHOOSE q \in RawLineEnds(source, 0) : TRUE

(* The inputs of C16: an opening quote, then bytes with no further quote   *)
(* and no backslash up to the end of input.  A raw line end is among them  *)
(* only as the end of the file (CR, LF or CR LF) and with whitespace not   *)
(* retained, so that what follows the literal is trivia.                   *)
UnclosedString(source, options) ==
  /\ Len(source) >= 1
  /\ source[1] = 34
  /\ \A k \in 2..Len(source) : source[k] \notin {34, 92}
  /\ LET e == UnclosedEnd(source)
     IN \/ e = Len(source)
        \/ /\ ~options.retainWhitespace
           /\ SubSeq(source, e + 1, Len(source)) \in {<<LF>>, <<CR>>, <<CR, LF>>}

UnterminatedStringReports ==
  {i \in DOMAIN lxDiags : lxDiags[i].id = "UnterminatedStringLiteralError"}

(* C16: for a file that is an opening double quote followed by bytes with  *)
(* no closing quote up to the end of input, the lexer reports exactly one  *)
(* UnterminatedStringLiteral diagnostic, the first token is one String     *)
(* token for the span, and the next token is EndOfFile.                    *)
C16_UnterminatedString ==
  (lxCall.op # "none" /\ UnclosedString(lxSource, lxOptions))
    => /\ Len(lxReturned) >= 1 =>
            /\ lxReturned[1].kind = "String"
            /\ TokenOffset(lxReturned[1]) = 0
            /\ lxReturned[1].length = UnclosedEnd(lxSource)
            /\ Cardinality(UnterminatedStringReports) = 1
       /\ Len(lxReturned) >= 2 => lxReturned[2].kind = "EndOfFile"

(* The same for the files in which the literal runs to the end of input,   *)
(* with no raw line end: there the code does as C16 says.                  *)
UnterminatedAtEndOfInput ==
  (/\ lxCall.op # "none"
   /\ UnclosedString(lxSource, lxOptions)
   /\ UnclosedEnd(lxSource) = Len(lxSource))
    => /\ Len(lxReturned) >= 1 =>
            /\ lxReturned[1].kind = "String"
            /\ TokenOffset(lxReturned[1]) = 0
            /\ lxReturned[1].length = Len(lxSource)
            /\ lxDiags = <<[id |-> "UnterminatedStringLiteralError",
                            loc |-> lxReturned[1].loc]>>
       /\ Len(lxReturned) >= 2 => lxReturned[2].kind = "EndOfFile"


TokenEnd(token) == TokenOffset(token) + token.length

(* C17: with retainComments and retainWhitespace both on, the tokens the   *)
(* lexer returns tile the file: the first starts at offset 0, each starts  *)
(* where the one before it ended (location + length), none reaches past    *)
(* the file size, and EndOfFile is located at the file size, so the tokens *)
(* before it end there.                                                    *)
C17_TokensCoverInput ==
  (lxCall.op # "none" /\ lxOptions.retainComments /\ lxOptions.retainWhitespace)
    => \A i \in DOMAIN lxReturned :
         /\ lxReturned[i].loc # 0
         /\ TokenOffset(lxReturned[i]) = IF i = 1 THEN 0 ELSE TokenEnd(lxReturned[i - 1])
         /\ TokenEnd(lxReturned[i]) <= Len(lxSource)
         /\ lxReturned[i].kind = "EndOfFile" <=> TokenOffset(lxReturned[i]) = Len(lxSource)
         /\ lxReturned[i].kind # "EndOfFile" => lxReturned[i].length >= 1

(* A whole file was lexed with everything retained: a comment, a line end  *)
(* inside it, and an identifier, then EndOfFile                            *)
C17_Witness ==
  /\ lxOptions.retainComments /\ lxOptions.retainWhitespace
  /\ Len(lxReturned) >= 3
  /\ lxReturned[1].kind = "BlockComment"
  /\ lxReturned[1].length = 5
  /\ lxReturned[Len(lxReturned)].kind = "EndOfFile"


(* The option sets that differ from o at most in enableFastPath,           *)
(* enableLookupTables, enablePrefetching and enableSimdOptimizations       *)
FlagSettings(o) ==
  {p \in LexerOptions : /\ p.retainComments = o.retainComments
                        /\ p.retainWhitespace = o.retainWhitespace}

WithOptions(lx, p) == [lx EXCEPT !.options = p]

(* For each of the 256 byte values, nextToken's dispatch and lexOperator's *)
(* single-character lookup decide the same with the tables and without     *)
DispatchAgrees ==
  LET on == [enableLookupTables |-> TRUE]
      off == [enableLookupTables |-> FALSE]
  IN \A c \in Bytes :
       /\ (isAlphaFast(c) \/ c = 95) = (isAlpha(off, c) \/ c = 95)
       /\ (isAlpha(on, c) \/ c = 95) = (isAlpha(off, c) \/ c = 95)
       /\ isDigitFast(c) = isDigit(off, c)
       /\ isDigit(on, c) = isDigit(off, c)
       /\ isWhitespaceFast(c) = isWhitespace(off, c)
       /\ isWhitespace(on, c) = isWhitespace(off, c)
       /\ isNewlineFast(c) = isNewline(off, c)
       /\ isNewline(on, c) = isNewline(off, c)
       /\ c < 128 => SINGLE_CHAR_TOKENS[c] = SingleCharSwitch(c)

(* C18: two lexers over the same file that differ only in the four         *)
(* implementation-choice flags emit the same tokens (kind, location,       *)
(* length, flags, text) and the same diagnostics, for every setting of the *)
(* retain options: the whole streams of the two are equal, and from every  *)
(* state a lexer reaches, the lexer that differs only in those flags scans *)
(* the same token, makes the same reports and is left at the same position *)
(* and line.                                                               *)
C18_FlagsDoNotChangeTokens ==
  lxCall.op # "none"
    => \A p \in FlagSettings(lxOptions) :
         LET a == scanToken(LX)
             b == scanToken(WithOptions(LX, p))
         IN /\ DispatchAgrees
            /\ a.token = b.token
            /\ b.lx = WithOptions(a.lx, p)
            /\ lxCall.op = "new"
                 => tokenizeFile(lxSource, p) = tokenizeFile(lxSource, lxOptions)

(* A lexer with the fast path and the tables off and SIMD on has lexed a   *)
(* file that begins with a full chunk of spaces                            *)
C18_Witness ==
  /\ ~lxOptions.enableFastPath
  /\ ~lxOptions.enableLookupTables
  /\ lxOptions.enableSimdOptimizations
  /\ Len(lxSource) > 16
  /\ Len(lxReturned) = 2
  /\ lxReturned[1].kind = "Identifier"


(* The lexer as constructed over the file, and after k scans *)
Fresh ==
  [source |-> lxSource, options |-> lxOptions, current |-> 0, lineStart |-> 0,
   currentLine |-> 1, diags |-> <<>>]

RECURSIVE AfterScans(_, _)
AfterScans(lx, k) == IF k = 0 THEN lx ELSE AfterScans(scanToken(lx).lx, k - 1)

(* The i-th token of the run that never peeks: the tokens up to the first  *)
(* EndOfFile, then EndOfFile again                                         *)
NoPeekToken(i) ==
  LET tokens == tokenizeFile(lxSource, lxOptions).tokens
  IN IF i <= Len(tokens) THEN tokens[i] ELSE tokens[Len(tokens)]

Buffered == IF hasPeekedToken THEN 1 ELSE 0

(* In every state: the tokens nextToken returned are those of the run      *)
(* without peeks; a buffered token is the one that run returns next, and   *)
(* it is what the peek returned; the input is scanned exactly one token    *)
(* ahead when a token is buffered and not at all ahead otherwise.          *)
C19_Inv ==
  lxCall.op # "none"
    => /\ \A i \in DOMAIN lxReturned : lxReturned[i] = NoPeekToken(i)
       /\ hasPeekedToken => peekedToken = NoPeekToken(Len(lxReturned) + 1)
       /\ ~hasPeekedToken => peekedToken = NoToken
       /\ lxCall.op = "peek" => hasPeekedToken /\ lxCall.token = peekedToken
       /\ LX = AfterScans(Fresh, Len(lxReturned) + Buffered)

(* In every step: nextToken after a peek returns the buffered token and    *)
(* scans nothing; a repeated peek returns the buffered token again and     *)
(* changes nothing.                                                        *)
C19_Step ==
  /\ (NextToken /\ hasPeekedToken)
       => /\ lxCall'.token = peekedToken
          /\ ~hasPeekedToken'
          /\ UNCHANGED <<lxCurrent, lxLineStart, lxCurrentLine, lxDiags>>
  /\ (PeekToken /\ hasPeekedToken)
       => /\ lxCall'.token = peekedToken
          /\ UNCHANGED <<lxCurrent, lxLineStart, lxCurrentLine, lxDiags,
                         hasPeekedToken, peekedToken, lxReturned>>

(* C19: for any interleaving of peekToken and nextToken calls, the tokens  *)
(* nextToken returns are the same as with no peeks; peekToken returns the  *)
(* token the next nextToken will return; repeated peeks return that token  *)
(* without scanning further; at most one token is ever buffered.           *)
C19_PeekDoesNotChangeTokens == []C19_Inv /\ [][C19_Step]_vars

(* nextToken has just handed out a token that a peek had buffered, after   *)
(* an earlier token; it is not EndOfFile                                   *)
C19_Witness ==
  /\ lxCall.op = "next"
  /\ ~lxCall.scanned
  /\ Len(lxReturned) >= 2
  /\ lxCall.token.kind # "EndOfFile"


---------------------------------------------------------------------------
(* A caller that, like the loop of tokenizeFile, calls nextToken again and *)
(* again on the lexer it constructed (and, unlike it, also after           *)
(* EndOfFile).                                                             *)
LXRunNext ==
  \/ /\ lxCall.op = "none"
     /\ \E source \in Sources, opts \in LexerOptions : NewLexerOver(source, opts)
  \/ NextToken

(* The loop of tokenizeFile does nothing between two calls but push the   *)
(* token, so a call that can be made is made: weak fairness on NextToken.  *)
SpecLXRun == Init /\ [][LXRunNext]_vars /\ WF_vars(NextToken)

(* Each nextToken call that returns a token other than EndOfFile leaves    *)
(* current at least one byte further; once EndOfFile was returned, each    *)
(* call returns EndOfFile and moves nothing.                               *)
C20_Step ==
  NextToken
    => /\ lxCall'.token.kind # "EndOfFile" => lxCurrent' > lxCurrent
       /\ lxCall'.token.kind = "EndOfFile" => lxCurrent' = Len(lxSource)
       /\ EndOfFileCount >= 1
            => /\ lxCall'.token.kind = "EndOfFile"
               /\ UNCHANGED <<lxCurrent, lxLineStart, lxCurrentLine, lxDiags>>

(* EndOfFile is returned by the call after at most one call per byte, and  *)
(* every call returns a token, whatever was reported.                      *)
C20_Inv ==
  /\ EndOfFileCount = 0 => Len(lxReturned) <= Len(lxSource)
  /\ \A i \in DOMAIN lxReturned : lxReturned[i] # NoToken

(* C20: on every input and option set repeated nextToken calls reach an    *)
(* EndOfFile token after finitely many calls: every call that returns      *)
(* another token consumes at least one byte, no call fails to return a     *)
(* token on a lexical error, and every call after the first EndOfFile      *)
(* returns EndOfFile again.                                                *)
C20_ReachesEndOfFile ==
  /\ []C20_Inv
  /\ [][C20_Step]_vars
  /\ (lxCall.op # "none") ~> (EndOfFileCount >= 1)

(* A file with lexical errors was lexed to the end: two tokens, reports,   *)
(* and EndOfFile returned twice                                            *)
C20_Witness ==
  /\ EndOfFileCount = 2
  /\ Len(lxReturned) >= 4
  /\ Len(lxDiags) >= 2


---------------------------------------------------------------------------
(* The line terminators of source that end below offset n: each LF, and    *)
(* each CR that no LF follows (CR LF is one terminator, ending at its LF). *)
TerminatorEnds(source, n) ==
  {i \in 1..n :
     \/ source[i] = LF
     \/ source[i] = CR /\ (i = Len(source) \/ source[i + 1] # LF)}

(* The offset after the last terminator that ends below n, or 0 *)
LineStartAt(source, n) ==
  IF TerminatorEnds(source, n) = {} THEN 0
  ELSE CHOOSE i \in TerminatorEnds(source, n) : \A j \in TerminatorEnds(source, n) : j <= i

LinesTracked ==
  /\ lxCurrentLine = 1 + Cardinality(TerminatorEnds(lxSource, lxCurrent))
  /\ lxLineStart = LineStartAt(lxSource, lxCurrent)

(* C21: each lone CR, lone LF or CR LF pair the lexer has passed counted   *)
(* for exactly one line and moved the line start to the byte after it, so  *)
(* the current line is 1 + the number of terminators passed, 1 + k once    *)
(* the input is lexed to its end.                                          *)
C21_LineTracking == LinesTracked

(* With no quote and no backslash in the file the lines are tracked: the   *)
(* terminators then are passed by handleNewline alone.                     *)
LinesTrackedOutsideLiterals ==
  (\A i \in DOMAIN lxSource : lxSource[i] \notin {34, 39, 92}) => LinesTracked


---------------------------------------------------------------------------
(* A block comment opens at offset p of source and no star-slash follows   *)
(* its opener.                                                             *)
UnterminatedCommentAt(source, p) ==
  /\ p + 2 <= Len(source)
  /\ ByteAt(source, p) = 47 /\ ByteAt(source, p + 1) = 42
  /\ \A q \in (p + 2)..(Len(source) - 2) :
        ~(ByteAt(source, q) = 42 /\ ByteAt(source, q + 1) = 47)

(* The lexer is about to scan at the opener of an unterminated comment *)
AtUnterminatedComment ==
  /\ lxCall.op # "none"
  /\ ~hasPeekedToken
  /\ lxCurrent < Len(lxSource)
  /\ UnterminatedCommentAt(lxSource, lxCurrent)

(* C22: a block comment with no closing star-slash extends to the end of   *)
(* input, retained or skipped: retained, the BlockComment token reaches    *)
(* the end of input and the token after it is EndOfFile; skipped, the      *)
(* token the scan returns is EndOfFile; no diagnostic is raised.           *)
C22_UnterminatedBlockComment ==
  AtUnterminatedComment =>
    LET first == scanToken(LX)
        second == scanToken(first.lx)
    IN IF lxOptions.retainComments
         THEN /\ first.token.kind = "BlockComment"
              /\ TokenOffset(first.token) = lxCurrent
              /\ TokenEnd(first.token) = Len(lxSource)
              /\ second.token.kind = "EndOfFile"
              /\ second.lx.diags = lxDiags
         ELSE /\ first.token.kind = "EndOfFile"
              /\ first.lx.diags = lxDiags

(* What the scan over an unterminated comment does: its loop runs while    *)
(* two bytes are left, so the comment ends at the end of input only when   *)
(* nothing follows the opener or CR LF are its last bytes, and one byte    *)
(* before the end otherwise; that byte is lexed on its own.                *)
UnterminatedCommentStopsShort ==
  AtUnterminatedComment =>
    LET toEnd == \/ Len(lxSource) = lxCurrent + 2
                 \/ /\ Len(lxSource) >= lxCurrent + 4
                    /\ ByteAt(lxSource, Len(lxSource) - 2) = CR
                    /\ ByteAt(lxSource, Len(lxSource) - 1) = LF
        stop == IF toEnd THEN Len(lxSource) ELSE Len(lxSource) - 1
        inComment == BlockCommentLoop(LX, lxCurrent + 2)
    IN /\ inComment.current = stop
       /\ inComment.diags = lxDiags
       /\ lxOptions.retainComments =>
            /\ scanToken(LX).token.kind = "BlockComment"
            /\ TokenEnd(scanToken(LX).token) = stop


---------------------------------------------------------------------------
(* The bytes that start no token: not alphabetic or underscore, not a      *)
(* digit, not whitespace or a line end, not a quote, and not one of the    *)
(* operator and punctuation bytes (slash, the comment opener, among them). *)
UnexpectedBytes ==
  {c \in Bytes :
     /\ c \notin AlphaFastBytes \cup {95} \cup DigitFastBytes
     /\ c \notin {32, 9, 11, 12, LF, CR, 34, 39}
     /\ ~(c < 128 /\ SINGLE_CHAR_TOKENS[c] # "Unknown")}

(* The character itself for a printable byte, its decimal code otherwise *)
CharacterOrCode(c) ==
  IF c \in 32..126 THEN [text |-> "", bytes |-> <<c>>]
  ELSE [text |-> "character code: ",
        bytes |-> IF c < 10 THEN <<48 + c>>
                  ELSE IF c < 100 THEN <<48 + (c \div 10), 48 + (c % 10)>>
                  ELSE <<48 + (c \div 100), 48 + ((c \div 10) % 10), 48 + (c % 10)>>]

(* C23: a scan that starts at a byte that starts no token (0x7F, a byte    *)
(* from 0x80 on, ...) returns one Unknown token of length 1 at that byte,  *)
(* reports exactly one UnexpectedValueError located at that byte and       *)
(* carrying the printable character or its numeric code, and leaves the    *)
(* lexer at the next byte.                                                 *)
C23_UnexpectedByte ==
  [][(/\ ScanStep
      /\ lxCurrent < Len(lxSource)
      /\ ByteAt(lxSource, lxCurrent) \in UnexpectedBytes)
     => /\ lxCall'.token.kind = "Unknown"
        /\ lxCall'.token.length = 1
        /\ TokenOffset(lxCall'.token) = lxCurrent
        /\ lxCurrent' = lxCurrent + 1
        /\ Len(lxDiags') = Len(lxDiags) + 1
        /\ SubSeq(lxDiags', 1, Len(lxDiags)) = lxDiags
        /\ LET d == lxDiags'[Len(lxDiags')]
           IN /\ d.id = "UnexpectedValueError"
              /\ d.loc = lxCall'.token.loc
              /\ d.actual = CharacterOrCode(ByteAt(lxSource, lxCurrent))]_vars

(* Lexing went on after unexpected bytes: a printable one and one reported *)
(* by its code, each with its Unknown token, and then a further token      *)
C23_Witness ==
  /\ \E i, j \in DOMAIN lxDiags :
        /\ lxDiags[i].id = "UnexpectedValueError" /\ lxDiags[i].actual.text = ""
        /\ lxDiags[j].id = "UnexpectedValueError" /\ lxDiags[j].actual.text # ""
  /\ Cardinality({i \in DOMAIN lxReturned : lxReturned[i].kind = "Unknown"}) >= 2
  /\ lxReturned[Len(lxReturned)].kind \notin {"Unknown", "EndOfFile"}


---------------------------------------------------------------------------
(* The operator and punctuation bytes, and the two-byte operators:         *)
(* += ++ -= -- -> *= /= %= == != <= << >= >> && || ::                      *)
OperatorBytes == {c \in 0..127 : SINGLE_CHAR_TOKENS[c] # "Unknown"}

TwoByteOperators ==
  {<<43, 61>>, <<43, 43>>, <<45, 61>>, <<45, 45>>, <<45, 62>>, <<42, 61>>,
   <<47, 61>>, <<37, 61>>, <<61, 61>>, <<33, 61>>, <<60, 61>>, <<60, 60>>,
   <<62, 61>>, <<62, 62>>, <<38, 38>>, <<124, 124>>, <<58, 58>>}

(* The lexer is about to scan at an operator: an operator byte that does   *)
(* not open a comment                                                      *)
AtOperator ==
  /\ lxCurrent < Len(lxSource)
  /\ ByteAt(lxSource, lxCurrent) \in OperatorBytes
  /\ ~(/\ ByteAt(lxSource, lxCurrent) = 47
       /\ lxCurrent + 1 < Len(lxSource)
       /\ ByteAt(lxSource, lxCurrent + 1) \in {47, 42})

(* The token lexOperator makes at the head of source is the two-byte       *)
(* operator when the first two bytes are one, else the one-byte token      *)
LongestFirst(source, options) ==
  LET r == lexOperator([source |-> source, options |-> options, current |-> 0,
                        lineStart |-> 0, currentLine |-> 1, diags |-> <<>>])
      two == Len(source) >= 2 /\ <<source[1], source[2]>> \in TwoByteOperators
  IN /\ r.token.length = IF two THEN 2 ELSE 1
     /\ r.lx.current = r.token.length
     /\ r.lx.diags = <<>>
     /\ r.token.kind = IF two THEN TwoCharTokens[<<source[1], source[2]>>]
                       ELSE SINGLE_CHAR_TOKENS[source[1]]
     /\ r.token.kind # "Unknown"

(* Every operator byte, alone, before every second byte, and before three  *)
(* different third bytes, with the lookup table and with the switch        *)
LongestFirstOnAllPairs ==
  \A c \in OperatorBytes, tables \in BOOLEAN :
    \A rest \in {<<>>} \cup {<<n>> : n \in Bytes}
                \cup {<<n, t>> : n \in Bytes, t \in {61, 62, 43}} :
      LongestFirst(<<c>> \o rest, [DefaultOptions EXCEPT !.enableLookupTables = tables])

(* C24: at an operator the lexer returns the two-byte operator when the    *)
(* next two bytes are one of the seventeen, and the one-byte token of the  *)
(* first byte otherwise; bytes beyond the second play no part.             *)
C24_LongestFirst ==
  [][(ScanStep /\ AtOperator)
     => LET c == ByteAt(lxSource, lxCurrent)
            two == /\ lxCurrent + 1 < Len(lxSource)
                   /\ <<c, ByteAt(lxSource, lxCurrent + 1)>> \in TwoByteOperators
        IN /\ TokenOffset(lxCall'.token) = lxCurrent
           /\ lxCall'.token.length = IF two THEN 2 ELSE 1
           /\ lxCurrent' = lxCurrent + lxCall'.token.length
           /\ lxCall'.token.kind =
                IF two THEN TwoCharTokens[<<c, ByteAt(lxSource, lxCurrent + 1)>>]
                ELSE SINGLE_CHAR_TOKENS[c]
           /\ lxDiags' = lxDiags
           /\ LongestFirstOnAllPairs]_vars

(* Three equal signs were lexed as == and =, and an arrow before a greater *)
(* sign as -> and >                                                        *)
C24_Witness ==
  /\ Len(lxReturned) >= 2
  /\ \/ lxReturned[1].kind = "EqualEqual" /\ lxReturned[2].kind = "Equal"
     \/ lxReturned[1].kind = "Arrow" /\ lxReturned[2].kind = "Greater"
  /\ lxReturned[2].length = 1


---------------------------------------------------------------------------
(* After clearCache no file's line index is marked computed *)
LineIndexesCleared ==
  smCall.op = "clearCache" =>
    \A i \in DOMAIN loadedFiles :
      ~loadedFiles[i].lineOffsetsComputed /\ loadedFiles[i].lineOffsets = <<>>

(* C27: after clearCache returns, the calling thread's last-location cache *)
(* holds no valid entry (last location and last file id invalid, cached    *)
(* line 0) and every file's line index is marked not computed.             *)
C27_ClearCacheInvalidates ==
  smCall.op = "clearCache" =>
    /\ g_location_cache.last_location = 0
    /\ g_location_cache.last_file_id = 0
    /\ g_location_cache.last_line = 0
    /\ \A i \in DOMAIN loadedFiles : ~loadedFiles[i].lineOffsetsComputed


---------------------------------------------------------------------------
(* The location is 0 or lies outside the interval [offset, offset + size]  *)
(* of every file of the table.                                             *)
OutsideEveryFile(loc) ==
  \/ loc = 0
  \/ \A i \in DOMAIN loadedFiles :
       \/ loc < loadedFiles[i].offset
       \/ loc > loadedFiles[i].offset + getSize(loadedFiles[i].entry)

(* getLocForFileOffset of an unknown FileID, or of an offset beyond the    *)
(* file's size, is the invalid location.                                   *)
NoLocationOutsideFile ==
  \A fid \in 0..(Len(loadedFiles) + 1), offset \in 0..MaxLoc :
    (\/ fid = 0 \/ fid > Len(loadedFiles)
     \/ offset > getSize(loadedFiles[fid].entry))
      => getLocForFileOffset(loadedFiles, fid, offset) = 0

(* C28: for location 0 and for a location outside every file's interval,   *)
(* getFileID returns the invalid FileID, getFileOffset, getLineNumber and  *)
(* getColumnNumber return 0 and getLineAndColumn returns (0, 0);           *)
(* getLocForFileOffset of an unknown FileID or of an offset above the size *)
(* returns the invalid location; no diagnostic is reported.                *)
C28_InvalidLocationDefaults ==
  /\ (/\ smCall.op \in {"getFileID", "getFileOffset", "getLineNumber",
                        "getColumnNumber", "getLineAndColumn"}
      /\ OutsideEveryFile(smCall.loc))
       => smCall.res = 0 /\ smCall.res2 = 0
  /\ NoLocationOutsideFile
  /\ reported = 0 /\ delivered = <<>>

(* A location past the end of the loaded files was queried for its line    *)
(* while the cache held a location of a file                               *)
C28_Witness ==
  /\ smCall.op = "getLineNumber"
  /\ smCall.loc # 0
  /\ OutsideEveryFile(smCall.loc)
  /\ Len(loadedFiles) = 2
  /\ g_location_cache.last_location # 0
  /\ g_location_cache.last_line > 0


---------------------------------------------------------------------------
(* Claims about the line index of a file *)

StrictlyIncreasing(offs) == \A k \in 1..(Len(offs) - 1) : offs[k] < offs[k + 1]

(* The offsets at which a line starts: 0 and the offset after each LF *)
LineStarts(data) == {0} \cup {i \in 1..Len(data) : data[i] = LF}

(* The 1-based index of the last entry that is at most o *)
LastEntryAtMost(offs, o) ==
  CHOOSE k \in 1..Len(offs) :
    offs[k] <= o /\ \A j \in 1..Len(offs) : offs[j] <= o => j <= k

(* C25: once computed, lineOffsets starts with 0, is strictly increasing   *)
(* and has one entry per line, 1 + the number of LF bytes, with or without *)
(* a trailing newline; the line reported for a byte offset in [0, size] is *)
(* the 1-based index of the last entry at most the offset, and the column  *)
(* is the offset minus that entry plus 1, so at least 1.                   *)
C25_LineIndex ==
  /\ lnInfo.lineOffsetsComputed =>
       /\ Len(lnInfo.lineOffsets) >= 1
       /\ lnInfo.lineOffsets[1] = 0
       /\ StrictlyIncreasing(lnInfo.lineOffsets)
       /\ Len(lnInfo.lineOffsets)
            = 1 + Cardinality({i \in 1..Len(lnInfo.data) : lnInfo.data[i] = LF})
       /\ {lnInfo.lineOffsets[k] : k \in 1..Len(lnInfo.lineOffsets)}
            = LineStarts(lnInfo.data)
  /\ lnCall.op = "getLineAndColumn" =>
       /\ lnInfo.lineOffsetsComputed
       /\ lnCall.offset \in 0..Len(lnInfo.data)
       /\ lnCall.line = LastEntryAtMost(lnInfo.lineOffsets, lnCall.offset)
       /\ lnCall.column = lnCall.offset - lnInfo.lineOffsets[lnCall.line] + 1
       /\ lnCall.column >= 1

(* The end of a file of 35 bytes without trailing newline, scanned 32      *)
(* bytes at a time, is reported as line 4, column 2.                       *)
C25_Witness ==
  /\ lnCall.op = "getLineAndColumn"
  /\ lnBuild = 32
  /\ Len(lnInfo.data) = 35
  /\ lnInfo.data[35] # LF
  /\ lnCall.offset = 35
  /\ lnCall.line = 4
  /\ lnCall.column = 2
  /\ lineComputationCount = 2

(* Queried by one thread at a time, a file's index is computed at most     *)
(* once between clearCache() calls.                                        *)
ComputedOncePerClear == lnSinceClear <= 1

(* C26: the index is computed at most once between clearCache() calls;     *)
(* when several threads query the same file concurrently, the computation  *)
(* is mutually exclusive, lineComputationCount rises by exactly one, and   *)
(* no thread reads lineOffsets while another thread is still filling it.   *)
C26_ComputedOnceUnderThreads ==
  /\ lnSinceClear <= 1
  /\ \A t, u \in LNThreads : t # u => ~(Computing(t) /\ Computing(u))
  /\ \A t, u \in LNThreads :
       t # u => ~(lnThr[t].pc = "find" /\ lnThr[u].pc \in {"clear", "scan"})


---------------------------------------------------------------------------
(* Claims about the ArenaAllocator *)

(* The nbytes bytes at ptr lie inside the chunk *)
InsideChunk(chunk, ptr, nbytes) ==
  ptr >= chunk.memory /\ ptr + nbytes <= chunk.memory + chunk.size

(* The bytes to skip from addr to the next multiple of alignment *)
Padding(addr, alignment) == (alignment - (addr % alignment)) % alignment

(* The request fits the last chunk of the arena, padding included *)
FitsLastChunk(ar, nbytes, alignment) ==
  /\ Len(ar.Chunks) > 0
  /\ LET last == ar.Chunks[Len(ar.Chunks)]
     IN Padding(last.memory + last.used, alignment) + nbytes <= last.size - last.used

(* The chunks of before are the first chunks now, untouched *)
EarlierChunksKept(before, upto) ==
  /\ Len(Chunks) >= upto
  /\ \A k \in 1..upto : Chunks[k] = before.Chunks[k]

(* What allocate(nbytes, requested) did, given the alignment and the new   *)
(* chunk size it is held to.                                               *)
AllocatedAsStated(before, nbytes, requested, alignment, newChunkSize, ptr, nonNull) ==
  IF nbytes = 0 \/ nbytes > kMaxAllocationSize
    THEN ptr = 0 /\ Chunks = before.Chunks /\ arenaStats = before.stats
       /\ chunkSize = before.chunkSize
  ELSE IF FitsLastChunk(before, nbytes, alignment)
    THEN LET last == Len(before.Chunks)
         IN /\ ptr # 0
            /\ ptr % requested = 0
            /\ Len(Chunks) = last
            /\ EarlierChunksKept(before, last - 1)
            /\ Chunks[last].memory = before.Chunks[last].memory
            /\ Chunks[last].size = before.Chunks[last].size
            /\ InsideChunk(Chunks[last], ptr, nbytes)
            /\ ptr >= Chunks[last].memory + before.Chunks[last].used
            /\ ptr + nbytes <= Chunks[last].memory + Chunks[last].used
  ELSE LET new == Len(before.Chunks) + 1
       IN /\ Len(Chunks) = new
          /\ EarlierChunksKept(before, new - 1)
          /\ Chunks[new].size = newChunkSize
          /\ nonNull => ptr # 0
          /\ ptr # 0 => /\ ptr % requested = 0
                        /\ InsideChunk(Chunks[new], ptr, nbytes)
                        /\ ptr + nbytes <= Chunks[new].memory + Chunks[new].used
          /\ ptr = 0 => Chunks[new].used = 0

C30_ResetAndClear ==
  /\ arCall.op = "reset" =>
       /\ Len(Chunks) = 1
       /\ Chunks[1].used = 0
       /\ Chunks[1].size = IF chunkSize > ChunkSizeLimit THEN ChunkSizeLimit ELSE chunkSize
       /\ arenaStats = [NoArenaStats EXCEPT !.chunkCount = 1,
                                            !.allocatedCount = Chunks[1].size]
       /\ getTotalUsed(Arena) = 0
       /\ chunkSize = arCall.before.chunkSize
  /\ arCall.op = "clear" =>
       /\ Len(Chunks) = Len(arCall.before.Chunks)
       /\ \A k \in 1..Len(Chunks) :
            /\ Chunks[k].memory = arCall.before.Chunks[k].memory
            /\ Chunks[k].size = arCall.before.Chunks[k].size
            /\ Chunks[k].used = 0
       /\ arenaStats.chunkCount = arCall.before.stats.chunkCount
       /\ arenaStats.allocatedCount = arCall.before.stats.allocatedCount
       /\ getTotalAllocated(Arena) = getTotalAllocated(arCall.before)
       /\ getTotalUsed(Arena) = 0

(* reset() of an arena of two chunks that clear() had rewound after        *)
(* allocations.                                                            *)
C30_Witness ==
  /\ arCall.op = "reset"
  /\ Len(arCall.before.Chunks) = 2
  /\ arCall.before.stats.requestedCount > 0
  /\ arCall.before.stats.allocationCount = 0
  /\ getTotalUsed(arCall.before) = 0
  /\ getTotalAllocated(arCall.before) > getTotalAllocated(Arena)


---------------------------------------------------------------------------
(* Claims about getFile on a file that cannot be loaded *)

(* The canonical name does not exist on disk *)
Missing(path) == normalizeFilename(path) \notin DiskNames

(* C31: getFile on a path that does not exist or cannot be read returns a  *)
(* null entry with a non-zero error code, leaves the cache contents and    *)
(* the cache-entry count unchanged and raises no diagnostic; a later       *)
(* getFile on the same path attempts the load again.                       *)
C31_FailedLoad ==
  gfCall.op = "getFile" =>
    /\ (gfCall.res = NoEntry) = (gfCall.error # 0)
    /\ gfCall.error # 0 =>
         /\ gfCall.attempted
         /\ fileCache = gfCall.before.cache
         /\ fileCacheCount = gfCall.before.count
         /\ fileCache[normalizeFilename(gfCall.path)] = NoEntry
         /\ gfFailed[normalizeFilename(gfCall.path)] >= 1
    /\ Missing(gfCall.path) => gfCall.error = ENOENT /\ gfCall.attempted
    /\ gfCall.before.cache[normalizeFilename(gfCall.path)] = NoEntry => gfCall.attempted
    /\ reported = 0 /\ delivered = <<>> /\ lxDiags = <<>>

(* The load of a.ml failed once with an i/o error; the next getFile of it  *)
(* loaded the file again and returned the entry.                           *)
C31_Witness ==
  /\ gfCall.op = "getFile"
  /\ normalizeFilename(gfCall.path) = "a.ml"
  /\ gfFailed["a.ml"] = 1
  /\ gfFailed["nofile"] = 2
  /\ gfCall.attempted
  /\ gfCall.error = 0
  /\ gfCall.res # NoEntry
  /\ gfCall.res.id = 1


---------------------------------------------------------------------------
(* Claims about the text of a token *)

KeywordKinds == {k.second : k \in Keywords}

LiteralKinds == {"Integer", "Float", "String", "Character"}

(* The bytes of the file at [location, location + length) *)
SpellingOf(token) == Spelling(lxSource, token.loc - 1, token.loc - 1 + token.length)

(* The token carries an interned text equal to its spelling *)
CarriesSpelling(token) == token.hasText /\ token.text = SpellingOf(token)

(* C32: every token of kind Identifier, of a keyword kind or of a literal  *)
(* kind carries a non-null interned text whose bytes are the token's       *)
(* spelling in the source, prefix, suffix and quotes included; every other *)
(* token carries the null handle.                                          *)
C32_TokenText ==
  \A i \in DOMAIN lxReturned :
    IF lxReturned[i].kind \in {"Identifier"} \cup KeywordKinds \cup LiteralKinds
      THEN CarriesSpelling(lxReturned[i])
      ELSE ~lxReturned[i].hasText

(* What the lexer does: identifiers and literals carry their spelling,     *)
(* keywords and every other token carry the null handle.                   *)
TextOnIdentifiersAndLiterals ==
  \A i \in DOMAIN lxReturned :
    IF lxReturned[i].kind \in {"Identifier"} \cup LiteralKinds
      THEN CarriesSpelling(lxReturned[i])
      ELSE ~lxReturned[i].hasText


---------------------------------------------------------------------------
(* Claims about the token table *)

(* The span of a token contains loc: its own location, or a location among *)
(* its length bytes.                                                       *)
SpanContains(token, loc) ==
  loc = token.loc \/ (loc >= token.loc /\ loc < token.loc + token.length)

(* C33: for a token table filled with the tokens of a lexed file,          *)
(* findAtLocation(loc) returns the index of the token whose span contains  *)
(* loc, so findAtLocation(t.location) is t's own index for every stored    *)
(* token t, and returns the sentinel SIZE_MAX when no stored token         *)
(* contains loc.                                                           *)
C33_FindAtLocation ==
  tmCall.op = "findTokenAtLocation" =>
    IF \E i \in DOMAIN tmTokens : SpanContains(tmTokens[i], tmCall.loc)
      THEN /\ tmCall.res \in 0..(Len(tmTokens) - 1)
           /\ SpanContains(tmTokens[tmCall.res + 1], tmCall.loc)
           /\ \A i \in DOMAIN tmTokens :
                tmTokens[i].loc = tmCall.loc /\ tmTokens[i].length > 0 => tmCall.res = i - 1
      ELSE tmCall.res = SIZE_MAX

(* What the search gives: the first token that starts at most length       *)
(* locations before loc, the location one past its last byte included.     *)
FindsFirstTokenReaching ==
  tmCall.op = "findTokenAtLocation" =>
    LET reaching == {i \in DOMAIN tmTokens :
                       /\ tmCall.loc >= tmTokens[i].loc
                       /\ tmCall.loc <= tmTokens[i].loc + tmTokens[i].length}
    IN IF reaching = {} THEN tmCall.res = SIZE_MAX
       ELSE /\ tmCall.res + 1 \in reaching
            /\ \A i \in reaching : tmCall.res + 1 <= i


---------------------------------------------------------------------------
(* Claims about the lexer and the SourceManager together *)

(* The SourceManager over the lexed file, queried with no cached location *)
FreshManager == [files |-> srcMgr(lxSource), cache |-> InvalidCache]

(* The lexer is constructed and its next nextToken call scans a token *)
AboutToScan == lxCall.op # "none" /\ ~hasPeekedToken

(* The token the next scan returns has the lexer's line and line start     *)
(* agree with the SourceManager.                                           *)
AgreesOnLines(scanned) ==
  /\ scanned.startLine = getLineNumber(FreshManager, scanned.token.loc, FALSE).res
  /\ ("AtStartOfLine" \in scanned.token.flags)
       = (getColumnNumber(FreshManager, scanned.token.loc).res = 1)

(* C34: the lexer and the SourceManager agree on lines: for every input    *)
(* and every token the lexer emits from a file, the lexer's current line   *)
(* when the token starts is getLineNumber of the token's location, and the *)
(* token has AtStartOfLine exactly when its SourceManager column is 1.     *)
C34_LinesAgree == AboutToScan => AgreesOnLines(scanToken(LX))

(* Where they do agree: in files without CR and without quotes the line is *)
(* the same, and a token other than EndOfFile that has AtStartOfLine is at *)
(* column 1.                                                               *)
LinesAgreeOnPlainFiles ==
  AboutToScan =>
    With(scanToken(LX), LAMBDA scanned :
      /\ (\A i \in DOMAIN lxSource : lxSource[i] \notin {CR, 34, 39}) =>
           scanned.startLine
             = getLineNumber(FreshManager, scanned.token.loc, FALSE).res
      /\ "AtStartOfLine" \in scanned.token.flags => scanned.token.kind # "EndOfFile")


---------------------------------------------------------------------------
(* Claims about getSourceText and getSourceLength *)

(* loc is in the interval [start, start + size] of file i of the table *)
InInterval(files, i, loc) ==
  /\ loc >= files[i].offset
  /\ loc <= files[i].offset + getSize(files[i].entry)

(* The bytes of file i from the offset of b up to, not including, that of e *)
FileBytes(files, i, b, e) ==
  SubSeq(files[i].entry.data, b - files[i].offset + 1, e - files[i].offset)

(* The last getSourceText call gave the bytes of file i between its        *)
(* arguments, as many as getSourceLength counts.                           *)
TextOfFile(i) ==
  /\ stCall.text = FileBytes(stCall.before.files, i, stCall.start, stCall.end)
  /\ Len(stCall.text) = stCall.length

(* C35: for two valid locations b <= e in the same file, getSourceText(b,  *)
(* e) returns exactly the bytes of the file from offset(b) up to but not   *)
(* including offset(e), for every e in the file's interval, the            *)
(* end-of-file location included, and its length is getSourceLength(b, e). *)
C35_SourceText ==
  stCall.op = "getSourceText" =>
    \A i \in DOMAIN stCall.before.files :
      ( /\ stCall.start # 0
        /\ stCall.start <= stCall.end
        /\ InInterval(stCall.before.files, i, stCall.start)
        /\ InInterval(stCall.before.files, i, stCall.end) ) => TextOfFile(i)

(* With one file in the table and e before the end-of-file location the    *)
(* text is the bytes of the file and has getSourceLength's length.         *)
SourceTextBeforeEndOfFile ==
  ( /\ stCall.op = "getSourceText"
    /\ Len(stCall.before.files) = 1
    /\ stCall.start # 0
    /\ stCall.start <= stCall.end
    /\ InInterval(stCall.before.files, 1, stCall.start)
    /\ stCall.end < stCall.before.files[1].offset
                      + getSize(stCall.before.files[1].entry) ) => TextOfFile(1)

(* With the end-of-file location as e the call returns the empty string *)
SourceTextToEndOfFile ==
  ( /\ stCall.op = "getSourceText"
    /\ Len(stCall.before.files) = 1
    /\ stCall.end = stCall.before.files[1].offset
                      + getSize(stCall.before.files[1].entry) ) => stCall.text = <<>>


---------------------------------------------------------------------------
(* Claims about two SourceManagers on one thread *)

(* C36: a SourceManager's answers depend only on its own file table: a     *)
(* getFileID, getLineNumber or getColumnNumber query on manager B made on  *)
(* a thread that earlier queried another manager A never returns a value   *)
(* taken from A's cached state and never indexes B's file table with a     *)
(* FileID that B did not issue.                                            *)
C36_OwnTableOnly ==
  (mmCall.op \in QueryOps /\ mmCall.foreign) =>
    /\ ~mmCall.wild
    /\ mmCall.res = mmCall.own

(* A query that finds the cache empty or last written by its own manager   *)
(* never reads beyond its file table.                                      *)
OwnCacheStaysInTable ==
  (mmCall.op \in QueryOps /\ ~mmCall.foreign) => ~mmCall.wild


---------------------------------------------------------------------------
(* Claims about the lexer's keywords and TokenInfo *)

(* The lexer made a token from the spelling of the last TokenInfo call *)
LexedSameSpelling(i) == lexed[i].spelling = tiCall.text

(* C37: the lexer's keyword lookup (getKeywordKindFast) and the public     *)
(* TokenInfo::getKeywordKind classify every identifier spelling            *)
(* identically, and for every keyword kind k getTokenSpelling(k) is a      *)
(* spelling that the lexer maps to k.                                      *)
C37_SameKeywords ==
  \A i \in DOMAIN lexed :
    /\ (tiCall.op = "getKeywordKind" /\ LexedSameSpelling(i))
         => lexed[i].token.kind = tiCall.kind
    /\ (tiCall.op = "getTokenSpelling" /\ isKeyword(tiCall.kind) /\ LexedSameSpelling(i))
         => lexed[i].token.kind = tiCall.kind

(* The spellings for, while, mod, module and function *)
DisputedSpellings ==
  {<<102, 111, 114>>, <<119, 104, 105, 108, 101>>, <<109, 111, 100>>,
   <<109, 111, 100, 117, 108, 101>>, <<102, 117, 110, 99, 116, 105, 111, 110>>}

(* On every other spelling the two lookups agree *)
SameKeywordsElsewhere ==
  \A i \in DOMAIN lexed :
    (tiCall.op # "none" /\ LexedSameSpelling(i) /\ tiCall.text \notin DisputedSpellings)
      => lexed[i].token.kind = tiCall.kind


---------------------------------------------------------------------------
(* Claims about lookup and contains *)

(* The handles intern has returned for str since the last clear() *)
HandlesOf(str) == {p.handle : p \in {q \in issued : q.str = str}}

(* Thread t completes a lookup or contains call in this step *)
Answers(t) ==
  /\ ith'[t] # ith[t]
  /\ ith'[t].pc = "done"
  /\ ith'[t].op \in {"lookup", "contains"}

(* The answer of t's call agrees with what intern has returned, and the    *)
(* call adds no entry.                                                     *)
AnswersAsInterned(t) ==
  /\ ith'[t].op = "lookup" =>
       IF HandlesOf(ith'[t].str) # {}
         THEN ith'[t].res \in HandlesOf(ith'[t].str)
         ELSE ith'[t].res = InvalidString
  /\ ith'[t].op = "contains" => (ith'[t].found <=> HandlesOf(ith'[t].str) # {})
  /\ UNCHANGED <<Storage, LookupMap, heap, issued>>

(* C38: lookup and contains are consistent with intern: for every byte     *)
(* sequence s, the empty sequence included, once intern(s) has returned    *)
(* handle h and until clear(), lookup(s) returns h and contains(s) is      *)
(* true; for a sequence never interned since the last clear(), lookup      *)
(* returns the null handle and contains is false; lookup and contains      *)
(* never add an entry.                                                     *)
C38_LookupAsInterned ==
  [][\A t \in Threads : Answers(t) => AnswersAsInterned(t)]_vars

(* The same for every sequence but the empty one *)
LookupAsInternedNonEmpty ==
  [][\A t \in Threads : (Answers(t) /\ ith'[t].str # <<>>) => AnswersAsInterned(t)]_vars

(* After intern of the empty sequence, lookup of it returns the null       *)
(* handle and contains is false.                                           *)
EmptyIsNeverFound ==
  \A t \in Threads :
    (ith[t].pc = "done" /\ ith[t].str = <<>>) =>
      /\ ith[t].op = "lookup" => ith[t].res = InvalidString
      /\ ith[t].op = "contains" => ~ith[t].found


(* Two ranges have no byte in common *)
Disjoint(p, q) == p.ptr + p.size <= q.ptr \/ q.ptr + q.size <= p.ptr

(* C39: between two consecutive clear()/reset() calls of an arena, the     *)
(* byte ranges returned by successful allocate and allocateString calls    *)
(* are pairwise disjoint, every chunk satisfies used <= size, and          *)
(* stats.chunkCount equals the number of chunks.                           *)
C39_DisjointRanges ==
  /\ \A i, j \in DOMAIN arRanges : i # j => Disjoint(arRanges[i], arRanges[j])
  /\ \A k \in DOMAIN Chunks : Chunks[k].used <= Chunks[k].size
  /\ arenaStats.chunkCount = Len(Chunks)

(* An allocate and an allocateString since the last clear() both           *)
(* succeeded, the second right behind the first in the same chunk.         *)
C39_Witness ==
  /\ Len(arRanges) = 2
  /\ arCall.op = "allocateString"
  /\ arCall.ptr = arRanges[2].ptr
  /\ arCall.before.stats.allocationCount = 1
  /\ Len(Chunks) = 1
  /\ arRanges[2].ptr = arRanges[1].ptr + 1024

(* Two ranges since the last reset() lie in two chunks *)
RangesInTwoChunks ==
  /\ Len(arRanges) = 2
  /\ Len(Chunks) = 2
  /\ InsideChunk(Chunks[1], arRanges[1].ptr, arRanges[1].size)
  /\ InsideChunk(Chunks[2], arRanges[2].ptr, arRanges[2].size)


---------------------------------------------------------------------------
(* Claims about the file cache's count and size limit *)

C40_CountInv == fileCacheCount = Cardinality(CachedKeys(fileCache))

(* A getFile call that inserts its entry while a limit is set returns with *)
(* the cached entries' total size within the limit.                        *)
C40_InsertStep ==
  \A t \in Threads :
    ( /\ thr[t].pc = "fm_publish"
      /\ thr'[t].pc = "done" /\ thr'[t].via = "inserted"
      /\ maxCacheSize # SIZE_MAX ) =>
        getCurrentCacheSize(fileCache') <= maxCacheSize

(* C40: after any sequence of getFile, removeFromCache, clearCache calls   *)
(* and size-based evictions, stats.fileCacheCount equals the number of     *)
(* entries in the file cache; and whenever getFile inserts a new entry     *)
(* while a maxCacheSize limit is set, the total size of the cached entries *)
(* is <= maxCacheSize when the call returns.                               *)
C40_CountAndLimit == C40_CountInv /\ [][C40_CountInv' /\ C40_InsertStep]_vars

(* Under a limit between the larger file and the two files' sum, a getFile *)
(* inserted the second file and the eviction left one entry, counted once. *)
C40_Witness ==
  /\ maxCacheSize = 5
  /\ fmHist.evicted # {}
  /\ fileCacheCount = 1
  /\ Cardinality(CachedKeys(fileCache)) = 1
  /\ \E t \in Threads :
       /\ thr[t].pc = "done" /\ thr[t].op = "getFile" /\ thr[t].via = "inserted"
       /\ fmHist.first[normalizeFilename(thr[t].path)] # NoEntry

=============================================================================
